---- MODULE Spec2Model ----
(***************************************************************************)
(* Watchlist digest builders of us-swing-trade-management:                 *)
(*   scripts/post_digest-owneronly.py   (script "owneronly")               *)
(*   scripts/post_digest_owner_pat.py   (script "owner_pat")               *)
(*   scripts/post_digest.py             (script "post_digest")             *)
(*                                                                         *)
(* Python values are modelled as they behave: decoded JSON is a tagged     *)
(* value, str() / float() / datetime.fromisoformat() are computed on the   *)
(* characters of the strings, and a raised exception is a result of its    *)
(* own.  TLA+ strings are ASCII; three characters of the scripts are       *)
(* written in ASCII here:                                                  *)
(*      U+2014 (em dash)          is written  ~                            *)
(*      U+2264 (less-or-equal)    is written  <=                           *)
(*      U+2265 (greater-or-equal) is written  >=                           *)
(***************************************************************************)
EXTENDS Integers, Sequences, FiniteSets, TLC

VARIABLES
    script,         \* which of the three scripts runs
    NOW_UTC,        \* module global NOW_UTC = datetime.now(timezone.utc)
    STALE_MINUTES,  \* environment STALE_MINUTES (read by owner_pat only)
    obj,            \* argument of parse_rows / to_rows: a decoded payload
    rows,           \* argument of a section builder: a list of rows
    manifest_obj,   \* argument of the staleness evaluator
    data,           \* argument of build_digest: table name -> payload
    candidates,     \* argument of the field resolver: the candidate names
    env,            \* the environment variables main reads
    net,            \* the remote side: what each request is answered with
    log,            \* the requests sent and the texts printed, in order
    pc,             \* "ready" before the call, "done" after it
    fn,             \* the function that was called
    ret             \* its result: [raised |-> BOOLEAN, val |-> value]

vars == <<script, NOW_UTC, STALE_MINUTES, obj, rows, manifest_obj, data, candidates, env, net,
          log, pc, fn, ret>>

(***************************************************************************)
(* Strings                                                                 *)
(***************************************************************************)
Char(s, i) == SubSeq(s, i, i)

DIGITS == "0123456789"
LOWERCASE == "abcdefghijklmnopqrstuvwxyz"
UPPERCASE == "ABCDEFGHIJKLMNOPQRSTUVWXYZ"
\* the characters of the model's strings in code-point order ("~" stands for
\* U+2014, which sorts after every ASCII character as "~" does)
CODEPOINTS == "\t\n\r !\"#$%&'()*+,-./0123456789:;<=>?@ABCDEFGHIJKLMNOPQRSTUVWXYZ[\\]^_abcdefghijklmnopqrstuvwxyz{|}~"

\* position of character c in string a, 0 when it is not there
IndexOf(c, a) ==
    IF \E i \in 1..Len(a) : Char(a, i) = c
    THEN CHOOSE i \in 1..Len(a) : Char(a, i) = c
    ELSE 0

IsDigit(c) == IndexOf(c, DIGITS) # 0
DigitVal(c) == IndexOf(c, DIGITS) - 1
AllDigits(s) == \A i \in 1..Len(s) : IsDigit(Char(s, i))

\* str.isspace() on one character
IsSpace(c) == c \in {" ", "\t", "\n", "\r"}

RECURSIVE LStrip(_)
LStrip(s) ==
    IF Len(s) > 0 /\ IsSpace(Char(s, 1)) THEN LStrip(SubSeq(s, 2, Len(s))) ELSE s

RECURSIVE RStrip(_)
RStrip(s) ==
    IF Len(s) > 0 /\ IsSpace(Char(s, Len(s))) THEN RStrip(SubSeq(s, 1, Len(s) - 1)) ELSE s

\* str.strip()
Strip(s) == RStrip(LStrip(s))

LowerChar(c) ==
    LET i == IndexOf(c, UPPERCASE) IN IF i = 0 THEN c ELSE Char(LOWERCASE, i)

UpperChar(c) ==
    LET i == IndexOf(c, LOWERCASE) IN IF i = 0 THEN c ELSE Char(UPPERCASE, i)

RECURSIVE Lower(_)
Lower(s) ==
    IF s = "" THEN "" ELSE LowerChar(Char(s, 1)) \o Lower(SubSeq(s, 2, Len(s)))

RECURSIVE Upper(_)
Upper(s) ==
    IF s = "" THEN "" ELSE UpperChar(Char(s, 1)) \o Upper(SubSeq(s, 2, Len(s)))

\* str.startswith(p)
StartsWith(s, p) == Len(s) >= Len(p) /\ SubSeq(s, 1, Len(p)) = p

\* p in s  (substring test)
Contains(s, p) ==
    \E i \in 1..(Len(s) - Len(p) + 1) : SubSeq(s, i, i + Len(p) - 1) = p

\* s.replace("Z", "+00:00"): every occurrence
RECURSIVE ReplaceZ(_)
ReplaceZ(s) ==
    IF s = "" THEN ""
    ELSE (IF Char(s, 1) = "Z" THEN "+00:00" ELSE Char(s, 1)) \o ReplaceZ(SubSeq(s, 2, Len(s)))

\* sep.join(parts)
RECURSIVE Join(_, _)
Join(parts, sep) ==
    IF parts = <<>> THEN ""
    ELSE IF Len(parts) = 1 THEN parts[1]
    ELSE parts[1] \o sep \o Join(Tail(parts), sep)

\* the lines of a text: its pieces between "\n" (the digest's lines)
Lines(s) ==
    LET nl == { i \in 1..Len(s) : Char(s, i) = "\n" }
        n == Cardinality(nl)
        pos(k) == CHOOSE i \in nl : Cardinality({ j \in nl : j < i }) = k - 1
        from(k) == IF k = 1 THEN 1 ELSE pos(k - 1) + 1
        to(k) == IF k = n + 1 THEN Len(s) ELSE pos(k) - 1
    IN  [k \in 1..(n + 1) |-> SubSeq(s, from(k), to(k))]

\* s < u in Python's string order (code points)
RECURSIVE StrLess(_, _)
StrLess(s, u) ==
    IF u = "" THEN FALSE
    ELSE IF s = "" THEN TRUE
    ELSE IF Char(s, 1) = Char(u, 1) THEN StrLess(SubSeq(s, 2, Len(s)), SubSeq(u, 2, Len(u)))
    ELSE IndexOf(Char(s, 1), CODEPOINTS) < IndexOf(Char(u, 1), CODEPOINTS)

\* decimal digits of a natural number
RECURSIVE NatToStr(_)
NatToStr(n) ==
    IF n < 10 THEN Char(DIGITS, n + 1)
    ELSE NatToStr(n \div 10) \o Char(DIGITS, (n % 10) + 1)

\* str(n) of an int
IntToStr(n) == IF n < 0 THEN "-" \o NatToStr(0 - n) ELSE NatToStr(n)

\* "%02d" / "%04d" of strftime
RECURSIVE ZeroPad(_, _)
ZeroPad(s, w) == IF Len(s) >= w THEN s ELSE ZeroPad("0" \o s, w)

\* value of a string of digits
RECURSIVE DigitsVal(_)
DigitsVal(s) ==
    IF s = "" THEN 0
    ELSE DigitsVal(SubSeq(s, 1, Len(s) - 1)) * 10 + DigitVal(Char(s, Len(s)))

(***************************************************************************)
(* Decoded JSON (json.loads): None, bool, int, float, str, list, dict.     *)
(* A float is n + f/100 with 0 <= f < 100 (n its floor).                   *)
(***************************************************************************)
NoKeys == [k \in {} |-> 0]

JNull == [t |-> "null", n |-> 0, f |-> 0, s |-> "", items |-> <<>>, obj |-> NoKeys]
JBool(b) == [JNull EXCEPT !.t = "bool", !.n = IF b THEN 1 ELSE 0]
JInt(i) == [JNull EXCEPT !.t = "int", !.n = i]
JFloat(i, h) == [JNull EXCEPT !.t = "float", !.n = i, !.f = h]
JStr(s) == [JNull EXCEPT !.t = "str", !.s = s]
JList(items) == [JNull EXCEPT !.t = "list", !.items = items]
JObj(fields) == [JNull EXCEPT !.t = "obj", !.obj = fields]

\* not v  (Python truth value)
Falsy(v) ==
    CASE v.t = "null" -> TRUE
      [] v.t \in {"bool", "int"} -> v.n = 0
      [] v.t = "float" -> v.n = 0 /\ v.f = 0
      [] v.t = "str" -> v.s = ""
      [] v.t = "list" -> v.items = <<>>
      [] v.t = "obj" -> DOMAIN v.obj = {}

\* a or b
Or(a, b) == IF Falsy(a) THEN b ELSE a

\* d.get(k) of a dict: None when the key is missing
Get(d, k) == IF k \in DOMAIN d.obj THEN d.obj[k] ELSE JNull

\* d.get(k, default)
GetDefault(d, k, default) == IF k \in DOMAIN d.obj THEN d.obj[k] ELSE default

\* str(float): repr of n + f/100, n >= 0
FloatToStr(n, f) ==
    NatToStr(n) \o "." \o (IF f % 10 = 0 THEN NatToStr(f \div 10) ELSE ZeroPad(NatToStr(f), 2))

\* str(v)
ToStr(v) ==
    CASE v.t = "str" -> v.s
      [] v.t = "int" -> IntToStr(v.n)
      [] v.t = "float" -> FloatToStr(v.n, v.f)
      [] v.t = "bool" -> IF v.n = 1 THEN "True" ELSE "False"
      [] v.t = "null" -> "None"
      [] v.t = "list" /\ v.items = <<>> -> "[]"
      [] v.t = "obj" /\ DOMAIN v.obj = {} -> "{}"
      [] OTHER -> "[...]"     \* repr of a non-empty list or dict: never blank

\* a == b between a decoded value and a Python literal (True == 1 == 1.0)
PyEq(a, b) ==
    IF a.t \in {"bool", "int", "float"} /\ b.t \in {"bool", "int", "float"}
    THEN a.n = b.n /\ a.f = b.f
    ELSE a = b

\* v in (c1, c2, ...)
InTuple(v, consts) == \E c \in consts : PyEq(v, c)

(***************************************************************************)
(* Results of a call: a value, or a raised exception                       *)
(***************************************************************************)
Return(v) == [raised |-> FALSE, val |-> v]
Raise == [raised |-> TRUE, val |-> <<>>]

(***************************************************************************)
(* Row normalizer                                                          *)
(***************************************************************************)
IsDict(v) == v.t = "obj"

\* "rows" in obj: key of a dict, element of a list, substring of a str
HasRows(o) ==
    CASE o.t = "obj" -> "rows" \in DOMAIN o.obj
      [] o.t = "list" -> \E i \in 1..Len(o.items) : o.items[i] = JStr("rows")
      [] o.t = "str" -> Contains(o.s, "rows")

\* parse_rows of owneronly and owner_pat (the same code in both)
parse_rows(o) ==
    IF Falsy(o) THEN Return(<<>>)                          \* not obj
    ELSE IF o.t \in {"bool", "int", "float"} THEN Raise    \* "rows" not in 5: TypeError
    ELSE IF ~HasRows(o) THEN Return(<<>>)
    ELSE IF o.t # "obj" THEN Raise                         \* list/str has no .get
    ELSE LET r == Or(o.obj["rows"], JList(<<>>)) IN        \* obj.get("rows") or []
         IF r.t \in {"bool", "int", "float"} THEN Raise    \* for r in 5: TypeError
         ELSE IF r.t = "list" THEN Return(SelectSeq(r.items, IsDict))
         ELSE Return(<<>>)      \* the characters of a str, the keys of a dict

\* to_rows of post_digest
to_rows(tab_json) ==
    IF Falsy(tab_json) THEN Return(<<>>)
    ELSE IF tab_json.t # "obj" THEN Raise                  \* .get of a list/str/number
    ELSE LET r == Get(tab_json, "rows") IN
         IF r.t = "list" THEN Return(r.items) ELSE Return(<<>>)

(***************************************************************************)
(* float(): a number n + f/100, or ok = FALSE when float() raises.         *)
(* Strings are read as [sign] digits [. digits], at most two digits after  *)
(* the point; exponents, "inf", "nan" and "_" are outside the inputs.      *)
(***************************************************************************)
Float(n, f) == [ok |-> TRUE, n |-> n, f |-> f]
NoFloat == [ok |-> FALSE, n |-> 0, f |-> 0]

ParseFloat(s0) ==
    LET s == Strip(s0)
        signed == Len(s) > 0 /\ Char(s, 1) \in {"+", "-"}
        neg == Len(s) > 0 /\ Char(s, 1) = "-"
        body == IF signed THEN SubSeq(s, 2, Len(s)) ELSE s
        dot == IndexOf(".", body)
        whole == IF dot = 0 THEN body ELSE SubSeq(body, 1, dot - 1)
        frac == IF dot = 0 THEN "" ELSE SubSeq(body, dot + 1, Len(body))
        ok == /\ AllDigits(whole) /\ AllDigits(frac)
              /\ Len(whole) + Len(frac) > 0 /\ Len(frac) <= 2
        w == DigitsVal(whole)
        h == IF Len(frac) = 1 THEN DigitsVal(frac) * 10 ELSE DigitsVal(frac)
    IN  IF ~ok THEN NoFloat
        ELSE IF neg /\ h > 0 THEN Float(0 - w - 1, 100 - h)
        ELSE Float(IF neg THEN 0 - w ELSE w, h)

\* float(v); ok = FALSE is TypeError / ValueError
PyFloat(v) ==
    CASE v.t \in {"int", "bool"} -> Float(v.n, 0)
      [] v.t = "float" -> Float(v.n, v.f)
      [] v.t = "str" -> ParseFloat(v.s)
      [] OTHER -> NoFloat

FloatLess(a, b) == a.n < b.n \/ (a.n = b.n /\ a.f < b.f)
FloatLessEq(a, b) == a.n < b.n \/ (a.n = b.n /\ a.f <= b.f)

(***************************************************************************)
(* Field resolver                                                          *)
(***************************************************************************)
\* a resolver that returns the trimmed value
RECURSIVE first_nonempty_trimmed(_, _)
first_nonempty_trimmed(d, keys) ==
    IF keys = <<>> THEN ""
    ELSE LET v == Get(d, Head(keys)) IN
         IF v.t # "null" /\ Strip(ToStr(v)) # "" THEN Strip(ToStr(v))
         ELSE first_nonempty_trimmed(d, Tail(keys))

\* first_nonempty of owneronly
RECURSIVE first_nonempty(_, _)
first_nonempty(d, keys) ==
    IF keys = <<>> THEN ""
    ELSE LET v == Get(d, Head(keys)) IN
         IF v.t # "null" /\ Strip(ToStr(v)) # "" THEN ToStr(v)
         ELSE first_nonempty(d, Tail(keys))

\* first of owner_pat
RECURSIVE first(_, _)
first(d, keys) ==
    IF keys = <<>> THEN ""
    ELSE LET v == Get(d, Head(keys)) IN
         IF v.t # "null" /\ Strip(ToStr(v)) # "" THEN ToStr(v)
         ELSE first(d, Tail(keys))

TICKER_KEYS == <<"Ticker", "Symbol">>
ZONE_KEYS == <<"EntryZone", "Entry Zone", "SuggestedEntry">>
MISSING_KEYS == <<"MissingSignals", "Missing", "Need">>
NEXT_KEYS == <<"NextCheckAt", "Next Check", "NextCheckAt (ISO8601)">>
WHY_KEYS == <<"Reason", "Trigger", "Status">>
KS_KEYS == <<"KillSwitch", "KillSwitchState">>
DD_KEYS == <<"Drawdown", "DD_Pct", "DD">>
QUOTA_KEYS == <<"SectorOverweights", "QuotaFlags", "Sector Quotas">>
EARN_KEYS == <<"EarningsDate", "NextEarnings", "EarningsDateISO", "Next ER (ISO)", "Next ER (Est.)", "NextERISO">>

\* the em dash of the scripts
DASH == "~"
PLACEHOLDER_LINE == "   " \o DASH
BOOTSTRAP == "Bootstrap row; system trigger"

(***************************************************************************)
(* Buy-candidate ranker                                                    *)
(***************************************************************************)
\* the key -1e9 of a row without a score
SENTINEL == Float(-1000000000, 0)

MACD_WORDS == {"true", "yes", "hook", "cross", "hook/cross"}

Min(a, b) == IF a < b THEN a ELSE b

\* owneronly: float(bs) if bs is not None and str(bs) != "" else None, in try
score_owneronly(r) ==
    LET bs == Get(r, "BounceScore") IN
    IF bs.t # "null" /\ ToStr(bs) # "" THEN PyFloat(bs) ELSE NoFloat

\* owner_pat: float(r["BounceScore"]) if r.get("BounceScore") not in (None, "") else None
score_owner_pat(r) ==
    LET bs == Get(r, "BounceScore") IN
    IF ~InTuple(bs, {JNull, JStr("")}) THEN PyFloat(bs) ELSE NoFloat

\* owneronly's reason tags, in the order they are appended
reasons_owneronly(r) ==
    (IF StartsWith(Lower(ToStr(GetDefault(r, "Recommendation", JStr("")))), "buy")
     THEN <<"Buy">> ELSE <<>>)
    \o (IF "RSI" \in DOMAIN r.obj /\ PyFloat(r.obj["RSI"]).ok
           /\ FloatLess(PyFloat(r.obj["RSI"]), Float(45, 0))
        THEN <<"RSI<45">> ELSE <<>>)
    \o (IF "%B" \in DOMAIN r.obj /\ PyFloat(r.obj["%B"]).ok
           /\ FloatLessEq(PyFloat(r.obj["%B"]), Float(0, 5))
        THEN <<"%B<=0.05">> ELSE <<>>)
    \o (IF Lower(ToStr(GetDefault(r, "MACDHook", JStr("")))) \in MACD_WORDS
        THEN <<"MACD hook">> ELSE <<>>)
    \o (IF InTuple(GetDefault(r, "EarningsSafe", JStr("")),
                   {JStr("true"), JBool(TRUE), JStr("yes"), JStr("ok")})
        THEN <<"ER>=35d">> ELSE <<>>)

\* owner_pat's reason tags
reasons_owner_pat(r) ==
    (IF PyFloat(GetDefault(r, "RSI", JStr("100"))).ok
        /\ FloatLess(PyFloat(GetDefault(r, "RSI", JStr("100"))), Float(45, 0))
     THEN <<"RSI<45">> ELSE <<>>)
    \o (IF PyFloat(GetDefault(r, "%B", JStr("1"))).ok
           /\ FloatLessEq(PyFloat(GetDefault(r, "%B", JStr("1"))), Float(0, 5))
        THEN <<"%B<=0.05">> ELSE <<>>)
    \o (IF Lower(ToStr(GetDefault(r, "MACDHook", JStr("")))) \in MACD_WORDS
        THEN <<"MACD hook">> ELSE <<>>)
    \o (IF InTuple(Get(r, "EarningsSafe"),
                   {JBool(TRUE), JStr("true"), JStr("True"), JStr("OK"), JStr("ok"), JStr("yes")})
        THEN <<"ER>=35d">> ELSE <<>>)

\* ", ".join(reasons) if reasons else "watch"
reason_str(reasons) == IF reasons # <<>> THEN Join(reasons, ", ") ELSE "watch"

\* a sort that puts an element before the elements of equal key (not stable)
RECURSIVE InsertDescBeforeEqual(_, _)
InsertDescBeforeEqual(sorted, x) ==
    IF sorted = <<>> THEN <<x>>
    ELSE IF FloatLessEq(Head(sorted).key, x.key) THEN <<x>> \o sorted
    ELSE <<Head(sorted)>> \o InsertDescBeforeEqual(Tail(sorted), x)

\* x goes before the first element whose key is smaller: after its equals
RECURSIVE InsertDesc(_, _)
InsertDesc(sorted, x) ==
    IF sorted = <<>> THEN <<x>>
    ELSE IF FloatLess(Head(sorted).key, x.key) THEN <<x>> \o sorted
    ELSE <<Head(sorted)>> \o InsertDesc(Tail(sorted), x)

\* scored.sort(key=lambda x: x[0], reverse=True): a stable sort, largest key first
RECURSIVE sort_reverse(_)
sort_reverse(scored) ==
    IF scored = <<>> THEN <<>>
    ELSE InsertDesc(sort_reverse(SubSeq(scored, 1, Len(scored) - 1)), scored[Len(scored)])

\* the last eight instead of the first
Last8(scored) == SubSeq(scored, Len(scored) - Min(8, Len(scored)) + 1, Len(scored))

\* scored[:8]
Top8(scored) == SubSeq(scored, 1, Min(8, Len(scored)))

\* f"   {t} ({reason}){zone_txt}"
buy_line(x) ==
    "   " \o x.t \o " (" \o x.reason \o ")"
        \o (IF x.zone # "" THEN " " \o DASH \o " " \o x.zone ELSE "")

\* the list scored of section_buy_candidates, before the sort
scored_owneronly(entry_rows) ==
    LET kept == SelectSeq(entry_rows, LAMBDA r : first_nonempty(r, TICKER_KEYS) # "") IN
    [i \in 1..Len(kept) |->
        [key |-> IF score_owneronly(kept[i]).ok THEN score_owneronly(kept[i]) ELSE SENTINEL,
         t |-> first_nonempty(kept[i], TICKER_KEYS),
         reason |-> reason_str(reasons_owneronly(kept[i])),
         zone |-> first_nonempty(kept[i], ZONE_KEYS)]]

\* the list scored of section_buy, before the sort
scored_owner_pat(entry_rows) ==
    LET kept == SelectSeq(entry_rows, LAMBDA r : first(r, TICKER_KEYS) # "") IN
    [i \in 1..Len(kept) |->
        [key |-> IF score_owner_pat(kept[i]).ok THEN score_owner_pat(kept[i]) ELSE SENTINEL,
         t |-> first(kept[i], TICKER_KEYS),
         reason |-> reason_str(reasons_owner_pat(kept[i])),
         zone |-> first(kept[i], ZONE_KEYS)]]

\* the lines of the ranked candidates
buy_lines(xs) == [i \in 1..Len(xs) |-> buy_line(xs[i])]

\* owneronly: the lines, none when there is no candidate
section_buy_candidates(entry_rows) ==
    LET out == buy_lines(Top8(sort_reverse(scored_owneronly(entry_rows)))) IN
    IF Len(out) >= 3 THEN SubSeq(out, 1, Min(8, Len(out))) ELSE out

\* owner_pat: the lines, or the placeholder line
section_buy(entry_rows) ==
    LET out == buy_lines(Top8(sort_reverse(scored_owner_pat(entry_rows)))) IN
    IF out # <<>> THEN out ELSE <<PLACEHOLDER_LINE>>

(***************************************************************************)
(* Oversold, exits, risk and quotas                                        *)
(***************************************************************************)
\* owneronly: f"   {t} ~ missing {missing}{nxt}" if missing else f"   {t}"
over_line_owneronly(r) ==
    LET t == first_nonempty(r, TICKER_KEYS)
        missing == first_nonempty(r, MISSING_KEYS)
        next_at == first_nonempty(r, NEXT_KEYS)
        nxt == IF next_at # "" THEN "; next " \o next_at ELSE ""
    IN  IF missing # "" THEN "   " \o t \o " " \o DASH \o " missing " \o missing \o nxt
        ELSE "   " \o t

section_oversold_not_ready(oversold_rows) ==
    LET kept == SelectSeq(oversold_rows, LAMBDA r : first_nonempty(r, TICKER_KEYS) # "")
    IN  [i \in 1..Len(kept) |-> over_line_owneronly(kept[i])]

over_line_owner_pat(r) ==
    LET t == first(r, TICKER_KEYS)
        missing == first(r, MISSING_KEYS)
        nxt == first(r, NEXT_KEYS)
    IN  IF missing # ""
        THEN "   " \o t \o " " \o DASH \o " missing " \o missing
                 \o (IF nxt # "" THEN "; next " \o nxt ELSE "")
        ELSE "   " \o t

\* a section_over that returns no line for no row
section_over_no_placeholder(oversold_rows) ==
    LET kept == SelectSeq(oversold_rows, LAMBDA r : first(r, TICKER_KEYS) # "")
    IN  [i \in 1..Len(kept) |-> over_line_owner_pat(kept[i])]

section_over(oversold_rows) ==
    LET kept == SelectSeq(oversold_rows, LAMBDA r : first(r, TICKER_KEYS) # "")
        out == [i \in 1..Len(kept) |-> over_line_owner_pat(kept[i])]
    IN  IF out # <<>> THEN out ELSE <<PLACEHOLDER_LINE>>

\* owneronly: f"   {t}" + (f" ~ {why}" if why else "")
exit_line_owneronly(r) ==
    LET t == first_nonempty(r, TICKER_KEYS)
        why == first_nonempty(r, WHY_KEYS)
    IN  "   " \o t \o (IF why # "" THEN " " \o DASH \o " " \o why ELSE "")

\* a section_exits that does not skip the rows without a ticker
section_exits_keep_all(exit_rows) ==
    [i \in 1..Len(exit_rows) |-> exit_line_owneronly(exit_rows[i])]

\* section_exits of owneronly
section_exits_owneronly(exit_rows) ==
    LET kept == SelectSeq(exit_rows, LAMBDA r : first_nonempty(r, TICKER_KEYS) # "")
    IN  [i \in 1..Len(kept) |-> exit_line_owneronly(kept[i])]

exit_line_owner_pat(r) ==
    LET t == first(r, TICKER_KEYS)
        why == first(r, WHY_KEYS)
    IN  "   " \o t \o (IF why # "" THEN " " \o DASH \o " " \o why ELSE "")

\* section_exits of owner_pat
section_exits_owner_pat(exit_rows) ==
    LET kept == SelectSeq(exit_rows, LAMBDA r : first(r, TICKER_KEYS) # "")
        out == [i \in 1..Len(kept) |-> exit_line_owner_pat(kept[i])]
    IN  IF out # <<>> THEN out ELSE <<PLACEHOLDER_LINE>>

\* owneronly: the flags of the first risk row
section_risk_quota(risk_rows) ==
    IF risk_rows = <<>> THEN BOOTSTRAP
    ELSE LET r0 == risk_rows[1]
             ks == Upper(first_nonempty(r0, KS_KEYS))
             dd == first_nonempty(r0, DD_KEYS)
             sector == first_nonempty(r0, QUOTA_KEYS)
             flags == (IF ks # "" THEN <<"KillSwitch: " \o ks>> ELSE <<>>)
                      \o (IF dd # "" THEN <<"DD: " \o dd>> ELSE <<>>)
                      \o (IF sector # "" THEN <<"Quotas: " \o sector>> ELSE <<>>)
         IN  IF flags # <<>> THEN Join(flags, ", ") ELSE BOOTSTRAP

\* owner_pat: the same without the upper-casing
section_risk(risk_rows) ==
    IF risk_rows = <<>> THEN BOOTSTRAP
    ELSE LET r0 == risk_rows[1]
             ks == first(r0, KS_KEYS)
             dd == first(r0, DD_KEYS)
             q == first(r0, QUOTA_KEYS)
             flags == (IF ks # "" THEN <<"KillSwitch: " \o ks>> ELSE <<>>)
                      \o (IF dd # "" THEN <<"DD: " \o dd>> ELSE <<>>)
                      \o (IF q # "" THEN <<"Quotas: " \o q>> ELSE <<>>)
         IN  IF flags # <<>> THEN Join(flags, ", ") ELSE BOOTSTRAP

(***************************************************************************)
(* Dates: datetime.fromisoformat, date.toordinal                           *)
(***************************************************************************)
IsLeap(y) == y % 4 = 0 /\ (y % 100 # 0 \/ y % 400 = 0)

DaysInMonth(y, m) ==
    IF m = 2 THEN (IF IsLeap(y) THEN 29 ELSE 28)
    ELSE IF m \in {4, 6, 9, 11} THEN 30 ELSE 31

RECURSIVE DaysBeforeMonth(_, _)
DaysBeforeMonth(y, m) ==
    IF m = 1 THEN 0 ELSE DaysBeforeMonth(y, m - 1) + DaysInMonth(y, m - 1)

\* date(y, m, d).toordinal()
Ordinal(y, m, d) ==
    LET p == y - 1 IN
    p * 365 + (p \div 4) - (p \div 100) + (p \div 400) + DaysBeforeMonth(y, m) + d

NoDate == [ok |-> FALSE, y |-> 0, mo |-> 0, d |-> 0, sec |-> 0, aware |-> FALSE, off |-> 0]

\* HH | HH:MM | HH:MM:SS | HH:MM:SS.fff | HH:MM:SS.ffffff -> seconds of the day, -1 if bad
TimeOfDay(c) ==
    LET n == Len(c)
        shape == /\ n \in {2, 5, 8, 12, 15}
                 /\ AllDigits(SubSeq(c, 1, 2))
                 /\ n >= 5 => (Char(c, 3) = ":" /\ AllDigits(SubSeq(c, 4, 5)))
                 /\ n >= 8 => (Char(c, 6) = ":" /\ AllDigits(SubSeq(c, 7, 8)))
                 /\ n >= 12 => (Char(c, 9) = "." /\ AllDigits(SubSeq(c, 10, n)))
        hh == DigitsVal(SubSeq(c, 1, 2))
        mm == IF n >= 5 THEN DigitsVal(SubSeq(c, 4, 5)) ELSE 0
        ss == IF n >= 8 THEN DigitsVal(SubSeq(c, 7, 8)) ELSE 0
    IN  IF shape /\ hh <= 23 /\ mm <= 59 /\ ss <= 59 THEN hh * 3600 + mm * 60 + ss ELSE 0 - 1

\* "" | +HH:MM | -HH:MM -> [ok, aware, off (minutes east of UTC)]
TzOffset(z) ==
    IF z = "" THEN [ok |-> TRUE, aware |-> FALSE, off |-> 0]
    ELSE LET shape == /\ Len(z) = 6 /\ AllDigits(SubSeq(z, 2, 3))
                      /\ Char(z, 4) = ":" /\ AllDigits(SubSeq(z, 5, 6))
             hh == DigitsVal(SubSeq(z, 2, 3))
             mm == DigitsVal(SubSeq(z, 5, 6))
             m == hh * 60 + mm
         IN  IF shape /\ hh <= 23 /\ mm <= 59
             THEN [ok |-> TRUE, aware |-> TRUE, off |-> IF Char(z, 1) = "-" THEN 0 - m ELSE m]
             ELSE [ok |-> FALSE, aware |-> FALSE, off |-> 0]

\* datetime.fromisoformat(s): YYYY-MM-DD[*HH[:MM[:SS[.fff[fff]]]][+HH:MM]], the
\* formats every Python 3.7+ reads; ok = FALSE is ValueError
fromisoformat(s) ==
    LET n == Len(s)
        dateShape == /\ n >= 10 /\ n # 11
                     /\ AllDigits(SubSeq(s, 1, 4)) /\ Char(s, 5) = "-"
                     /\ AllDigits(SubSeq(s, 6, 7)) /\ Char(s, 8) = "-"
                     /\ AllDigits(SubSeq(s, 9, 10))
        y == DigitsVal(SubSeq(s, 1, 4))
        mo == DigitsVal(SubSeq(s, 6, 7))
        d == DigitsVal(SubSeq(s, 9, 10))
        dateOk == /\ dateShape /\ y >= 1 /\ mo \in 1..12 /\ d >= 1 /\ d <= DaysInMonth(y, mo)
        rest == SubSeq(s, 12, n)
        plus == IndexOf("+", rest)
        minus == IndexOf("-", rest)
        tzpos == IF plus # 0 /\ (minus = 0 \/ plus < minus) THEN plus ELSE minus
        core == IF tzpos = 0 THEN rest ELSE SubSeq(rest, 1, tzpos - 1)
        tz == TzOffset(IF tzpos = 0 THEN "" ELSE SubSeq(rest, tzpos, Len(rest)))
        sec == IF n = 10 THEN 0 ELSE TimeOfDay(core)
    IN  IF dateOk /\ sec >= 0 /\ tz.ok
        THEN [ok |-> TRUE, y |-> y, mo |-> mo, d |-> d, sec |-> sec,
              aware |-> tz.aware, off |-> tz.off]
        ELSE NoDate

(***************************************************************************)
(* Earnings-window filter                                                  *)
(***************************************************************************)
\* NOW_UTC.date().toordinal()
TodayOrdinal == Ordinal(NOW_UTC.y, NOW_UTC.mo, NOW_UTC.d)

\* (d.date() - today).days of a parsed timestamp
DaysOut(d) == Ordinal(d.y, d.mo, d.d) - TodayOrdinal

\* sorted(items) of strings: stable, by code point
RECURSIVE InsertSorted(_, _)
InsertSorted(sorted, x) ==
    IF sorted = <<>> THEN <<x>>
    ELSE IF StrLess(x, Head(sorted)) THEN <<x>> \o sorted
    ELSE <<Head(sorted)>> \o InsertSorted(Tail(sorted), x)

\* the items in the order of their rows
Unsorted(items) == items

RECURSIVE Sorted(_)
Sorted(items) ==
    IF items = <<>> THEN <<>>
    ELSE InsertSorted(Sorted(SubSeq(items, 1, Len(items) - 1)), items[Len(items)])

\* a window test that leaves the last day out
InWindowExclusive(days) == 0 <= days /\ days < 14

\* 0 <= days <= 14
InWindow(days) == 0 <= days /\ days <= 14

\* whether the loop of section_upcoming_earnings appends an item for the row
earn_keeps(t, dt_str) ==
    /\ t # ""
    /\ dt_str # ""
    /\ fromisoformat(ReplaceZ(dt_str)).ok
    /\ InWindow(DaysOut(fromisoformat(ReplaceZ(dt_str))))

\* f"{t} ({days}d)"
earn_item(t, dt_str) ==
    t \o " (" \o IntToStr(DaysOut(fromisoformat(ReplaceZ(dt_str)))) \o "d)"

\* owneronly
section_upcoming_earnings(earn_rows) ==
    LET kept == SelectSeq(earn_rows, LAMBDA r :
                    earn_keeps(first_nonempty(r, TICKER_KEYS), first_nonempty(r, EARN_KEYS)))
        items == [i \in 1..Len(kept) |->
                    earn_item(first_nonempty(kept[i], TICKER_KEYS), first_nonempty(kept[i], EARN_KEYS))]
    IN  IF items # <<>> THEN Join(Sorted(items), ", ") ELSE DASH

\* owner_pat
section_earn14(earn_rows) ==
    LET kept == SelectSeq(earn_rows, LAMBDA r :
                    earn_keeps(first(r, TICKER_KEYS), first(r, EARN_KEYS)))
        items == [i \in 1..Len(kept) |->
                    earn_item(first(kept[i], TICKER_KEYS), first(kept[i], EARN_KEYS))]
    IN  IF items # <<>> THEN Join(Sorted(items), ", ") ELSE DASH

(***************************************************************************)
(* Staleness evaluator                                                     *)
(***************************************************************************)
BRANCH == "Strategy_4_1"

\* NOW_UTC.strftime("%Y-%m")
MONTH == ZeroPad(NatToStr(NOW_UTC.y), 4) \o "-" \o ZeroPad(NatToStr(NOW_UTC.mo), 2)

\* URLS["manifest"]
MANIFEST_URL ==
    "https://cdn.jsdelivr.net/gh/vaibhavrajebhosale/us-swing-trade-management@"
        \o BRANCH \o "/snapshots/" \o MONTH \o "/latest/manifest.json"

\* int((NOW_UTC - ts).total_seconds() // 60); a naive ts is taken as UTC
MinutesSince(ts) ==
    LET nowsec == NOW_UTC.h * 3600 + NOW_UTC.mi * 60 + NOW_UTC.s
        delta == (TodayOrdinal - Ordinal(ts.y, ts.mo, ts.d)) * 86400
                     + (nowsec - ts.sec) + ts.off * 60
    IN  delta \div 60

\* the report of a manifest whose timestamp iso is truthy; `limit` is the threshold
stale_report(iso, limit) ==
    IF iso.t # "str" THEN "Manifest timestamp unreadable: " \o ToStr(iso)   \* no .replace
    ELSE LET ts == fromisoformat(ReplaceZ(iso.s)) IN
         IF ~ts.ok THEN "Manifest timestamp unreadable: " \o iso.s
         ELSE "Snapshot " \o iso.s \o " " \o DASH \o " " \o IntToStr(MinutesSince(ts))
                  \o " minutes ago"
                  \o (IF MinutesSince(ts) > limit THEN " (STALE!)" ELSE "")

\* owneronly: the threshold is the literal 90
manifest_staleness(m) ==
    IF Falsy(m) THEN Return("Manifest missing at " \o MANIFEST_URL)
    ELSE IF m.t # "obj" THEN Raise                      \* .get of a list/str/number
    ELSE LET iso == Or(Or(Get(m, "snapshot_iso"), Get(m, "timestamp")), JStr("")) IN
         IF Falsy(iso) THEN Return("Manifest timestamp missing")
         ELSE Return(stale_report(iso, 90))

\* owner_pat: the threshold is STALE_MINUTES
staleness(m) ==
    IF Falsy(m) THEN Return("Manifest missing at " \o MANIFEST_URL)
    ELSE IF m.t # "obj" THEN Raise
    ELSE LET iso == Or(Or(Get(m, "snapshot_iso"), Get(m, "timestamp")), JStr("")) IN
         IF Falsy(iso) THEN Return("Manifest timestamp missing")
         ELSE Return(stale_report(iso, STALE_MINUTES))

(***************************************************************************)
(* Digest assembler                                                        *)
(***************************************************************************)
\* NOW_UTC.strftime("%Y-%m-%d %H:%MZ")
NowStamp ==
    MONTH \o "-" \o ZeroPad(NatToStr(NOW_UTC.d), 2) \o " "
        \o ZeroPad(NatToStr(NOW_UTC.h), 2) \o ":" \o ZeroPad(NatToStr(NOW_UTC.mi), 2) \o "Z"

HEADER == "Watchlist Digest " \o DASH \o " " \o NowStamp
H_BUY == "1) Buy Candidates"
H_OVER == "2) Oversold but Not Ready"
H_EXITS == "3) Exits"
H_RISK == "4) Risk & Quotas"
H_EARN == "5) Upcoming Earnings (next 14 days)"
H_STALE == "Staleness"

\* data.get(key)
DataGet(d, k) == IF k \in DOMAIN d THEN d[k] ELSE JNull

\* "\n".join(lines) if lines else "   ~"
block_owneronly(lines) == IF lines # <<>> THEN Join(lines, "\n") ELSE PLACEHOLDER_LINE

\* the text under each header, by script
buy_block(sc, rs) ==
    IF sc = "owneronly" THEN block_owneronly(section_buy_candidates(rs))
    ELSE Join(section_buy(rs), "\n")

over_block(sc, rs) ==
    IF sc = "owneronly" THEN block_owneronly(section_oversold_not_ready(rs))
    ELSE Join(section_over(rs), "\n")

exit_block(sc, rs) ==
    IF sc = "owneronly" THEN block_owneronly(section_exits_owneronly(rs))
    ELSE Join(section_exits_owner_pat(rs), "\n")

risk_block(sc, rs) ==
    IF sc = "owneronly"
    THEN (IF section_risk_quota(rs) # "" THEN section_risk_quota(rs) ELSE BOOTSTRAP)
    ELSE section_risk(rs)

earn_block(sc, rs) ==
    IF sc = "owneronly" THEN section_upcoming_earnings(rs) ELSE section_earn14(rs)

stale_block(sc, m) == IF sc = "owneronly" THEN manifest_staleness(m) ELSE staleness(m)

\* build_digest of owneronly and owner_pat: the text, or the exception of
\* parse_rows / the staleness evaluator
build_digest(sc, d) ==
    LET entry == parse_rows(DataGet(d, "EntryWatchlist"))
        over == parse_rows(DataGet(d, "OversoldTracker"))
        exits == parse_rows(DataGet(d, "ExitMonitor"))
        risk == parse_rows(DataGet(d, "RiskMonitor"))
        earn == parse_rows(DataGet(d, "EarningsMonitor"))
        stale == stale_block(sc, DataGet(d, "manifest"))
    IN  IF entry.raised \/ over.raised \/ exits.raised \/ risk.raised \/ earn.raised
           \/ stale.raised
        THEN Raise
        ELSE Return(
            HEADER \o "\n\n"
            \o H_BUY \o "\n" \o buy_block(sc, entry.val) \o "\n\n"
            \o H_OVER \o "\n" \o over_block(sc, over.val) \o "\n\n"
            \o H_EXITS \o "\n" \o exit_block(sc, exits.val) \o "\n\n"
            \o H_RISK \o "\n   " \o risk_block(sc, risk.val) \o "\n\n"
            \o H_EARN \o "\n   " \o earn_block(sc, earn.val) \o "\n\n"
            \o H_STALE \o "\n   " \o stale.val \o "\n")

(***************************************************************************)
(* Inputs of the row normalizer                                            *)
(***************************************************************************)
RowA == JObj([Ticker |-> JStr("AAA")])
RowB == JObj([Symbol |-> JStr("BBB"), BounceScore |-> JInt(3)])

\* the values a "rows" field may hold
RowsValues ==
    { JNull, JInt(0), JInt(5), JFloat(2, 50), JBool(TRUE), JBool(FALSE),
      JStr(""), JStr("abc"), JObj(NoKeys), JObj([a |-> JInt(1)]),
      JList(<<>>), JList(<<RowA>>), JList(<<RowA, RowB>>), JList(<<RowB, RowA>>),
      JList(<<JInt(1), RowA, JStr("x"), RowB, JNull>>), JList(<<JList(<<RowA>>)>>),
      JList(<<JNull, JInt(7)>>) }

Payloads ==
    { JNull, JInt(0), JInt(5), JBool(TRUE), JStr(""), JStr("rows"), JStr("no data"),
      JList(<<>>), JList(<<RowA>>), JList(<<JStr("rows")>>),
      JObj(NoKeys), JObj([columns |-> JList(<<>>)]) }
    \cup { JObj([rows |-> v]) : v \in RowsValues }
    \cup { JObj([columns |-> JList(<<JStr("Ticker")>>), rows |-> v]) : v \in RowsValues }

Scripts == {"owneronly", "owner_pat", "post_digest"}
DigestScripts == {"owneronly", "owner_pat"}

DefaultNow == [y |-> 2025, mo |-> 9, d |-> 13, h |-> 4, mi |-> 21, s |-> 30]

\* every list of at most n elements of S
SeqsUpTo(S, n) == UNION { [1..k -> S] : k \in 0..n }

\* a missing column of a sample row
Absent == [JNull EXCEPT !.t = "absent"]
Col(k, v) == IF v = Absent THEN NoKeys ELSE (k :> v)

\* row r with its Ticker column set to "T<i>"
Ticker(i) == "T" \o NatToStr(i)
WithTicker(r, i) == JObj(("Ticker" :> JStr(Ticker(i))) @@ r.obj)
Numbered(rs) == [i \in 1..Len(rs) |-> WithTicker(rs[i], i)]

\* the state before a call
Ready(sc, now, limit, o, rs, m, d) ==
    /\ script = sc
    /\ NOW_UTC = now
    /\ STALE_MINUTES = limit
    /\ obj = o
    /\ rows = rs
    /\ manifest_obj = m
    /\ data = d
    /\ candidates = <<>>
    /\ env = NoKeys
    /\ net = NoKeys
    /\ log = <<>>
    /\ pc = "ready"
    /\ fn = ""
    /\ ret = Return(<<>>)

Call(name, result) ==
    /\ pc = "ready"
    /\ pc' = "done"
    /\ fn' = name
    /\ ret' = result
    /\ UNCHANGED <<script, NOW_UTC, STALE_MINUTES, obj, rows, manifest_obj, data, candidates,
                   env, net, log>>

(***************************************************************************)
(* SpecRows: the row normalizer on every payload                           *)
(***************************************************************************)
InitRows ==
    \E sc \in Scripts, o \in Payloads :
        Ready(sc, DefaultNow, 120, o, <<>>, JNull, NoKeys)

CallParseRows ==
    /\ script \in DigestScripts
    /\ Call("parse_rows", parse_rows(obj))

CallToRows ==
    /\ script = "post_digest"
    /\ Call("to_rows", to_rows(obj))

NextRows == CallParseRows \/ CallToRows

SpecRows == InitRows /\ [][NextRows]_vars

(***************************************************************************)
(* SpecSections: one table fed to each of the five section builders        *)
(***************************************************************************)
MaxRows == 3

\* rows with and without a ticker, each with columns every builder reads
G1 == JObj([Ticker |-> JStr("AAA"), BounceScore |-> JInt(8), RSI |-> JInt(40),
            MissingSignals |-> JStr("MACD"), Reason |-> JStr("stop hit"),
            EarningsDate |-> JStr("2025-09-20"), KillSwitch |-> JStr("on"),
            Drawdown |-> JFloat(4, 50)])
G2 == JObj([Name |-> JStr("x"), BounceScore |-> JInt(9), Recommendation |-> JStr("Buy"),
            MissingSignals |-> JStr("RSI"), NextCheckAt |-> JStr("2025-09-14T13:30:00Z"),
            Reason |-> JStr("target"), EarningsDate |-> JStr("2025-09-13"),
            KillSwitch |-> JStr("off"), DD |-> JStr("3%"), QuotaFlags |-> JStr("Tech")])
G3 == JObj([Ticker |-> JStr("  "), Symbol |-> JNull, BounceScore |-> JInt(7),
            Reason |-> JStr("gap"), EarningsDate |-> JStr("2025-09-14"),
            KillSwitchState |-> JStr("Armed")])
G4 == JObj([Ticker |-> JStr(""), Symbol |-> JStr("BBB"), BounceScore |-> JInt(3),
            Need |-> JStr("volume"), Status |-> JStr("hold"),
            NextEarnings |-> JStr("2025-09-27T21:00:00Z"),
            SectorOverweights |-> JStr("Energy")])
G5 == JObj([Ticker |-> JNull, Symbol |-> JStr("\t")])
G6 == JObj([Symbol |-> JInt(123)])

GenericRows == {G1, G2, G3, G4, G5, G6}

InitSections ==
    \E sc \in DigestScripts, rs \in SeqsUpTo(GenericRows, MaxRows) :
        Ready(sc, DefaultNow, 120, JNull, rs, JNull, NoKeys)

CallBuy == Call("buy", Return(buy_block(script, rows)))
CallOver == Call("over", Return(over_block(script, rows)))
CallExits == Call("exits", Return(exit_block(script, rows)))
CallRisk == Call("risk", Return(risk_block(script, rows)))
CallEarn == Call("earn", Return(earn_block(script, rows)))

NextSections == CallBuy \/ CallOver \/ CallExits \/ CallRisk \/ CallEarn

SpecSections == InitSections /\ [][NextSections]_vars

Done == pc = "done"

\* neither "Ticker" nor "Symbol" holds a non-blank value
NoTicker(r) ==
    \A k \in {"Ticker", "Symbol"} :
        k \notin DOMAIN r.obj \/ r.obj[k].t = "null" \/ Strip(ToStr(r.obj[k])) = ""

HasTicker(r) == ~NoTicker(r)

\* the block a builder writes for a table
BlockOf(name, sc, rs) ==
    CASE name = "buy" -> buy_block(sc, rs)
      [] name = "over" -> over_block(sc, rs)
      [] name = "exits" -> exit_block(sc, rs)
      [] name = "risk" -> risk_block(sc, rs)
      [] name = "earn" -> earn_block(sc, rs)

Builders == {"buy", "over", "exits", "risk", "earn"}
TickerBuilders == {"buy", "over", "exits", "earn"}

\* C1 as stated: a row without a ticker contributes nothing to any of the five
\* builders, the risk summarizer included: every builder's output is the output
\* for the table without those rows, and nothing is raised
C1_TickerlessRowsIgnoredEverywhere ==
    (Done /\ fn \in Builders) =>
        /\ ~ret.raised
        /\ ret.val = BlockOf(fn, script, SelectSeq(rows, HasTicker))

\* C1 amended: rows without a ticker contribute nothing to the four per-ticker
\* builders (buy candidates, oversold, exits, upcoming earnings) and raise
\* nothing; the risk summarizer reports the first row of its table, with or
\* without a ticker, and no other row
C1_TickerlessRowsIgnored ==
    /\ (Done /\ fn \in TickerBuilders) =>
           /\ ~ret.raised
           /\ ret.val = BlockOf(fn, script, SelectSeq(rows, HasTicker))
    /\ (Done /\ fn = "risk") =>
           /\ ~ret.raised
           /\ ret.val = risk_block(script, SubSeq(rows, 1, Min(1, Len(rows))))

\* a table with a ticker-less row that has a reason, between rows with a ticker,
\* has been through the exits builder
C1_Witness ==
    /\ Done /\ fn = "exits"
    /\ Len(rows) = 3
    /\ HasTicker(rows[1]) /\ rows[2] = G2 /\ HasTicker(rows[3])
    /\ Len(Lines(ret.val)) = 2

\* C6 as stated: an empty table gives "~" or "   ~" in each of the five builders
C6_EmptyTablePlaceholderEverywhere ==
    (Done /\ fn \in Builders /\ rows = <<>>) =>
        /\ ~ret.raised
        /\ ret.val \in {DASH, PLACEHOLDER_LINE}

\* C6 amended: an empty table gives "   ~" for buy candidates, oversold and exits,
\* "~" for upcoming earnings and "Bootstrap row; system trigger" for risk and
\* quotas, and raises nothing
C6_EmptyTablePlaceholder ==
    (Done /\ fn \in Builders /\ rows = <<>>) =>
        /\ ~ret.raised
        /\ fn \in {"buy", "over", "exits"} => ret.val = PLACEHOLDER_LINE
        /\ fn = "earn" => ret.val = DASH
        /\ fn = "risk" => ret.val = BOOTSTRAP

\* the empty table has been through the oversold builder of owner_pat
C6_Witness == Done /\ fn = "over" /\ script = "owner_pat" /\ rows = <<>>

(***************************************************************************)
(* SpecBuy: entry-watchlist tables fed to the buy-candidate ranker.        *)
(* Row i of a table has the ticker "T<i>", so a line names its row.        *)
(***************************************************************************)
MaxEntryRows == 4

\* BounceScore columns: missing, 5.0, 8, " 5 " (a string that parses to 5),
\* a string that does not parse, a score below the sentinel
ScoreRows ==
    { JObj(Col("BounceScore", v)) :
        v \in { Absent, JFloat(5, 0), JInt(8), JStr(" 5 "), JStr("n/a"), JInt(-2000000000) } }

\* the columns the reason tags are read from
TagRows ==
    { JObj(Col("Recommendation", rec) @@ Col("RSI", rsi) @@ Col("%B", pb)
           @@ Col("MACDHook", macd) @@ Col("EarningsSafe", es)) :
        rec \in { Absent, JStr("Buy"), JStr("BUY (strong)"), JStr("Strong buy") },
        rsi \in { Absent, JInt(40), JInt(45), JStr("44.99"), JNull },
        pb \in { Absent, JFloat(0, 5), JStr("0.06"), JNull },
        macd \in { Absent, JStr("Hook"), JBool(TRUE), JStr("no") },
        es \in { Absent, JBool(TRUE), JStr("yes"), JInt(1), JStr("no") } }

\* the table of the specification's end-to-end scenario
ScenarioRows ==
    << JObj([Ticker |-> JStr("AAA"), BounceScore |-> JInt(8), RSI |-> JInt(40)]),
       JObj([Ticker |-> JStr("BBB"), BounceScore |-> JInt(3)]) >>

EntryTables ==
    { Numbered(rs) : rs \in SeqsUpTo(ScoreRows, MaxEntryRows) }
    \cup { Numbered(<<r>>) : r \in TagRows }
    \cup { ScenarioRows }

InitBuy ==
    \E sc \in DigestScripts, rs \in EntryTables :
        Ready(sc, DefaultNow, 120, JNull, rs, JNull, NoKeys)

NextBuy == CallBuy

SpecBuy == InitBuy /\ [][NextBuy]_vars

\* the position of row i's line among the lines of the section, 0 if it has none
LineIndex(i) ==
    LET ls == Lines(ret.val)
        hit == { k \in 1..Len(ls) : StartsWith(ls[k], "   " \o Ticker(i) \o " (") }
    IN  IF hit = {} THEN 0 ELSE CHOOSE k \in hit : TRUE

\* the BounceScore of a row as a number, ok = FALSE when it has none that parses
ParsedScore(r) ==
    IF "BounceScore" \in DOMAIN r.obj THEN PyFloat(r.obj["BounceScore"]) ELSE NoFloat

SameScore(a, b) ==
    \/ ~ParsedScore(a).ok /\ ~ParsedScore(b).ok
    \/ /\ ParsedScore(a).ok /\ ParsedScore(b).ok
       /\ ParsedScore(a).n = ParsedScore(b).n /\ ParsedScore(a).f = ParsedScore(b).f

C3_ScoredBeforeUnscored ==
    (Done /\ fn = "buy") =>
        \A i, j \in 1..Len(rows) :
            (HasTicker(rows[i]) /\ HasTicker(rows[j])
                /\ LineIndex(i) > 0 /\ LineIndex(j) > 0)
            => /\ (ParsedScore(rows[i]).ok /\ ~ParsedScore(rows[j]).ok)
                      => LineIndex(i) < LineIndex(j)
               /\ (i < j /\ ~ParsedScore(rows[i]).ok /\ ~ParsedScore(rows[j]).ok)
                      => LineIndex(i) < LineIndex(j)

\* the tags C7 gives a row, in its order; the MACD and earnings-safe words are
\* those of the script that runs
C7_Tags(sc, r) ==
    (IF StartsWith(Lower(ToStr(GetDefault(r, "Recommendation", JStr("")))), "buy")
     THEN <<"Buy">> ELSE <<>>)
    \o (IF PyFloat(Get(r, "RSI")).ok /\ FloatLess(PyFloat(Get(r, "RSI")), Float(45, 0))
        THEN <<"RSI<45">> ELSE <<>>)
    \o (IF PyFloat(Get(r, "%B")).ok /\ FloatLessEq(PyFloat(Get(r, "%B")), Float(0, 5))
        THEN <<"%B<=0.05">> ELSE <<>>)
    \o (IF Lower(ToStr(GetDefault(r, "MACDHook", JStr("")))) \in MACD_WORDS
        THEN <<"MACD hook">> ELSE <<>>)
    \o (IF InTuple(Get(r, "EarningsSafe"),
                   IF sc = "owneronly"
                   THEN {JStr("true"), JBool(TRUE), JStr("yes"), JStr("ok")}
                   ELSE {JBool(TRUE), JStr("true"), JStr("True"), JStr("OK"), JStr("ok"), JStr("yes")})
        THEN <<"ER>=35d">> ELSE <<>>)

\* the text between the parentheses of a buy line
ReasonOf(line, t) == SubSeq(line, Len("   " \o t \o " (") + 1, Len(line) - 1)

\* C7 as stated: the reason of each row is its tags joined by ", " in the order
\* Buy, RSI<45, %B<=0.05, MACD hook, ER>=35d, and "watch" exactly when it has
\* none; the scenario table gives AAA (RSI<45) then BBB (watch)
C7_ReasonTags ==
    (Done /\ fn = "buy") =>
        /\ \A i \in 1..Len(rows) :
               (rows \in { Numbered(<<r>>) : r \in TagRows } /\ LineIndex(i) > 0) =>
                   ReasonOf(Lines(ret.val)[LineIndex(i)], Ticker(i))
                       = (IF C7_Tags(script, rows[i]) = <<>> THEN "watch"
                          ELSE Join(C7_Tags(script, rows[i]), ", "))
        /\ rows = ScenarioRows => Lines(ret.val) = <<"   AAA (RSI<45)", "   BBB (watch)">>

(***************************************************************************)
(* SpecEarn: earnings tables around the edges of the 14-day window.        *)
(***************************************************************************)
MaxEarnRows == 2

At(y, mo, d, h, mi, s) == [y |-> y, mo |-> mo, d |-> d, h |-> h, mi |-> mi, s |-> s]

\* three clock values: before a year end, in a leap February just after
\* midnight, in a common February just before midnight
Clocks == { At(2025, 12, 25, 10, 30, 45), At(2024, 2, 20, 0, 0, 5), At(2025, 2, 20, 23, 59, 59) }

Day(now, iso, days) == [now |-> now, iso |-> iso, days |-> days]

\* earnings timestamps with the calendar days from the clock's date to theirs
EarnCalendar ==
    { Day(At(2025, 12, 25, 10, 30, 45), "2025-12-25", 0),
      Day(At(2025, 12, 25, 10, 30, 45), "2025-12-25T23:59:59Z", 0),
      Day(At(2025, 12, 25, 10, 30, 45), "2025-12-25T00:00:00+05:30", 0),
      Day(At(2025, 12, 25, 10, 30, 45), "2026-01-08T23:59:59", 14),
      Day(At(2025, 12, 25, 10, 30, 45), "2026-01-09T00:00:00Z", 15),
      Day(At(2025, 12, 25, 10, 30, 45), "2025-12-24T23:59:59Z", 0 - 1),
      Day(At(2024, 2, 20, 0, 0, 5), "2024-02-20T23:59:59-08:00", 0),
      Day(At(2024, 2, 20, 0, 0, 5), "2024-03-05", 14),
      Day(At(2024, 2, 20, 0, 0, 5), "2024-03-06", 15),
      Day(At(2024, 2, 20, 0, 0, 5), "2024-02-19T23:59:59Z", 0 - 1),
      Day(At(2024, 2, 20, 0, 0, 5), "2024-02-29 09:30", 9),
      Day(At(2025, 2, 20, 23, 59, 59), "2025-02-20T00:00:00", 0),
      Day(At(2025, 2, 20, 23, 59, 59), "2025-03-06T00:00:00Z", 14),
      Day(At(2025, 2, 20, 23, 59, 59), "2025-03-07", 15),
      Day(At(2025, 2, 20, 23, 59, 59), "2025-02-19", 0 - 1),
      Day(At(2025, 2, 20, 23, 59, 59), "2025-03-01T12:00:00.000Z", 9) }

\* values of the date column that are no timestamp
Unparseable == { "soon", "2025-02-30", "03/06/2025" }

EarnRows(now) ==
    { JObj([EarningsDate |-> JStr(c.iso)]) : c \in { e \in EarnCalendar : e.now = now } }
    \cup { JObj([NextEarnings |-> JStr(u)]) : u \in Unparseable }

InitEarn ==
    \E sc \in DigestScripts, now \in Clocks :
        \E rs \in SeqsUpTo(EarnRows(now), MaxEarnRows) :
            Ready(sc, now, 120, JNull, Numbered(rs), JNull, NoKeys)

NextEarn == CallEarn

SpecEarn == InitEarn /\ [][NextEarn]_vars

\* the calendar's day count of a row, none when its date column is no timestamp
CalendarDays(r) ==
    { c.days : c \in { e \in EarnCalendar :
                          e.now = NOW_UTC /\ Get(r, "EarningsDate") = JStr(e.iso) } }

\* C4: a row with a ticker and a parseable earnings date is listed, as
\* "T (Nd)", if and only if its date is 0 to 14 calendar days after the current
\* UTC date, whatever the time of day of either timestamp
C4_EarningsWindow ==
    (Done /\ fn = "earn") =>
        /\ ~ret.raised
        /\ \A i \in 1..Len(rows) : \A n \in CalendarDays(rows[i]) :
               /\ Contains(ret.val, Ticker(i) \o " (") <=> (0 <= n /\ n <= 14)
               /\ (0 <= n /\ n <= 14) =>
                      Contains(ret.val, Ticker(i) \o " (" \o IntToStr(n) \o "d)")

\* a row 14 days out is listed and a row 15 days out is not
C4_Witness ==
    /\ Done /\ fn = "earn" /\ NOW_UTC = At(2025, 12, 25, 10, 30, 45)
    /\ Len(rows) = 2
    /\ Get(rows[1], "EarningsDate") = JStr("2026-01-09T00:00:00Z")
    /\ Get(rows[2], "EarningsDate") = JStr("2026-01-08T23:59:59")
    /\ ret.val = "T2 (14d)"

(***************************************************************************)
(* SpecStale: manifests of known age against each threshold setting.       *)
(***************************************************************************)
Age(iso, seconds) == [iso |-> iso, seconds |-> seconds]

\* manifest timestamps with the seconds from them to DefaultNow
\* (2025-09-13T04:21:30Z)
StaleCalendar ==
    { Age("2025-09-13T04:21:30Z", 0),
      Age("2025-09-13T04:22:00Z", 0 - 30),
      Age("2025-09-13T03:21:30Z", 3600),
      Age("2025-09-13T03:20:31Z", 3659),
      Age("2025-09-13T03:20:30Z", 3660),
      Age("2025-09-13T02:51:31Z", 5399),
      Age("2025-09-13T02:51:30Z", 5400),
      Age("2025-09-13T08:21:30+05:30", 5400),
      Age("2025-09-13T02:50:31Z", 5459),
      Age("2025-09-13T02:50:30Z", 5460),
      Age("2025-09-13T02:21:30Z", 7200),
      Age("2025-09-13T02:20:31Z", 7259),
      Age("2025-09-13T02:20:30Z", 7260),
      Age("2025-09-12T23:21:30", 18000) }

Manifests ==
    { JObj([snapshot_iso |-> JStr(a.iso)]) : a \in StaleCalendar }
    \cup { JObj([timestamp |-> JStr(a.iso), snapshot_iso |-> JStr("")]) : a \in StaleCalendar }
    \cup { JNull, JObj(NoKeys), JObj([snapshot_iso |-> JStr("yesterday")]),
           JObj([timestamp |-> JInt(1757737290)]), JList(<<JStr("snapshot_iso")>>) }

\* settings of the STALE_MINUTES environment variable
Thresholds == {60, 90, 120}

InitStale ==
    \E sc \in DigestScripts, limit \in Thresholds, m \in Manifests :
        Ready(sc, DefaultNow, limit, JNull, <<>>, m, NoKeys)

CallStaleness == Call("staleness", stale_block(script, manifest_obj))

NextStale == CallStaleness

SpecStale == InitStale /\ [][NextStale]_vars

\* the calendar's age in seconds of the manifest's timestamp
CalendarAge(m) ==
    IF m.t # "obj" THEN {}
    ELSE { a.seconds : a \in { e \in StaleCalendar :
               JStr(e.iso) \in { Get(m, "snapshot_iso"), Get(m, "timestamp") } } }

EndsWith(s, suffix) ==
    Len(s) >= Len(suffix) /\ SubSeq(s, Len(s) - Len(suffix) + 1, Len(s)) = suffix

\* C5 as stated: the report ends with "(STALE!)" exactly when the whole minutes
\* elapsed since the manifest timestamp exceed the configured threshold
\* STALE_MINUTES, in both scripts
C5_StaleMarker ==
    (Done /\ fn = "staleness") =>
        \A sec \in CalendarAge(manifest_obj) :
            /\ ~ret.raised
            /\ EndsWith(ret.val, "(STALE!)") <=> (sec \div 60) > STALE_MINUTES

(***************************************************************************)
(* SpecDigest: build_digest on every combination of absent, empty and      *)
(* populated tables and manifests.                                         *)
(***************************************************************************)
Table(rs) == JObj([rows |-> JList(rs)])

\* an exit row whose reason holds a line break
MultiLine == JObj([Ticker |-> JStr("AAA"), Reason |-> JStr("gap down\n3) Exits")])

EntryPayloads == { Absent, Table(<<>>), Table(<<G1, G4>>) }
OverPayloads == { Absent, Table(<<>>), Table(<<G1, G4>>) }
ExitPayloads == { Absent, Table(<<>>), Table(<<G1>>), Table(<<MultiLine>>) }
RiskPayloads == { Absent, Table(<<>>), Table(<<G2>>) }
EarnPayloads == { Absent, Table(<<>>), Table(<<G1, G4>>) }
ManifestPayloads ==
    { Absent, JObj(NoKeys), JObj([snapshot_iso |-> JStr("2025-09-13T03:21:30Z")]) }

InitDigest ==
    \E sc \in DigestScripts, en \in EntryPayloads, ov \in OverPayloads, ex \in ExitPayloads,
       ri \in RiskPayloads, ea \in EarnPayloads, ma \in ManifestPayloads :
        Ready(sc, DefaultNow, 120, JNull, <<>>, JNull,
              Col("EntryWatchlist", en) @@ Col("OversoldTracker", ov)
                  @@ Col("ExitMonitor", ex) @@ Col("RiskMonitor", ri)
                  @@ Col("EarningsMonitor", ea) @@ Col("manifest", ma))

CallBuildDigest == Call("build_digest", build_digest(script, data))

NextDigest == CallBuildDigest

SpecDigest == InitDigest /\ [][NextDigest]_vars

\* the positions of the lines of a text that are exactly h
Where(ls, h) == { k \in 1..Len(ls) : ls[k] = h }

SectionHeaders == <<H_BUY, H_OVER, H_EXITS, H_RISK, H_EARN, H_STALE>>

\* C9 as stated: for every input the digest has the header line first and once,
\* then each of the six section headers exactly once and in order, each
\* followed by a body line that is not blank
C9_DigestLayout ==
    (Done /\ fn = "build_digest") =>
        /\ ~ret.raised
        /\ LET ls == Lines(ret.val)
               at(h) == CHOOSE k \in Where(ls, h) : TRUE
           IN  /\ Where(ls, HEADER) = {1}
               /\ \A i \in 1..6 : Cardinality(Where(ls, SectionHeaders[i])) = 1
               /\ \A i \in 1..6 :
                      /\ at(SectionHeaders[i]) < Len(ls)
                      /\ Strip(ls[at(SectionHeaders[i]) + 1]) # ""
               /\ \A i \in 1..5 : at(SectionHeaders[i]) < at(SectionHeaders[i + 1])

\* what C10 has the normalizer return for a payload
C10_Expected(o) ==
    IF o.t = "obj" /\ "rows" \in DOMAIN o.obj /\ o.obj["rows"].t = "list"
    THEN SelectSeq(o.obj["rows"].items, IsDict)
    ELSE <<>>

\* C10 as stated: the row normalizer raises for no payload; it returns the
\* record entries of "rows" in order when "rows" is a sequence, else nothing
C10_NormalizerTotal ==
    (Done /\ fn \in {"parse_rows", "to_rows"}) =>
        /\ ~ret.raised
        /\ ret.val = C10_Expected(obj)

(***************************************************************************)
(* SpecResolve: the field resolver on rows of blank, null and non-blank    *)
(* values under every short candidate list.  A row is a function of its    *)
(* keys, as a dict is for d.get: it has no key order to depend on.         *)
(***************************************************************************)
MaxKeys == 3

FieldNames == {"A", "B", "C"}

\* cell values with their str(), the blank ones included
StrForms ==
    { <<JStr(""), "">>, <<JStr(" \t"), " \t">>, <<JStr(" y "), " y ">>,
      <<JInt(0), "0">>, <<JBool(FALSE), "False">>, <<JFloat(2, 50), "2.5">> }

CellValues == { sf[1] : sf \in StrForms } \cup { JNull, Absent }

ResolverRows ==
    { JObj(Col("A", a) @@ Col("B", b) @@ Col("C", c)) : a, b, c \in CellValues }

InitResolve ==
    \E sc \in DigestScripts, r \in ResolverRows, ks \in SeqsUpTo(FieldNames, MaxKeys) :
        /\ script = sc /\ NOW_UTC = DefaultNow /\ STALE_MINUTES = 120
        /\ obj = JNull /\ rows = <<r>> /\ manifest_obj = JNull /\ data = NoKeys
        /\ candidates = ks
        /\ env = NoKeys /\ net = NoKeys /\ log = <<>>
        /\ pc = "ready" /\ fn = "" /\ ret = Return(<<>>)

\* first_nonempty of owneronly, first of owner_pat
CallResolve ==
    Call("first", Return(IF script = "owneronly" THEN first_nonempty(rows[1], candidates)
                         ELSE first(rows[1], candidates)))

NextResolve == CallResolve

SpecResolve == InitResolve /\ [][NextResolve]_vars

\* candidate i names a value of the row that is present, not null and not blank
Qualifies(r, ks, i) ==
    /\ ks[i] \in DOMAIN r.obj
    /\ \E sf \in StrForms : sf[1] = r.obj[ks[i]] /\ sf[2] \notin {"", " \t"}

\* C11: the resolver raises nothing and returns the string form of the value of
\* the first candidate, in list order, that is present, not null and not blank
\* after trimming; the empty string when there is none
C11_FirstQualifyingCandidate ==
    (Done /\ fn = "first") =>
        /\ ~ret.raised
        /\ (\A i \in 1..Len(candidates) : ~Qualifies(rows[1], candidates, i)) => ret.val = ""
        /\ \A i \in 1..Len(candidates) :
               (Qualifies(rows[1], candidates, i)
                    /\ \A j \in 1..(i - 1) : ~Qualifies(rows[1], candidates, j))
               => <<rows[1].obj[candidates[i]], ret.val>> \in StrForms

\* a missing, a blank and a null candidate are skipped and the untrimmed " y "
\* of the last candidate is returned
C11_Witness ==
    /\ Done /\ fn = "first" /\ candidates = <<"C", "A", "B">>
    /\ "C" \notin DOMAIN rows[1].obj
    /\ "A" \in DOMAIN rows[1].obj /\ Get(rows[1], "A") = JStr(" \t")
    /\ Get(rows[1], "B") = JStr(" y ")
    /\ ret.val = " y "

(***************************************************************************)
(* main: the fetches.  A remote resource answers every GET of one run the  *)
(* same way:                                                               *)
(*   "ok"       2xx, the body decodes to the resource's table or manifest  *)
(*   "odd"      2xx, the body decodes to the JSON number 5                 *)
(*   "garbled"  2xx, the body is no JSON                                   *)
(*   "status"   a status that is not 2xx                                   *)
(*   "error"    no response: network error or timeout                      *)
(* log holds what the run sends and prints, in order.                      *)
(***************************************************************************)
AnswerKinds == {"ok", "odd", "garbled", "status", "error"}

\* the keys of URLS, in the order of the dict
URLS == <<"manifest", "CurrentHoldings", "ExitMonitor", "RiskMonitor", "SectorExposure",
          "EarningsMonitor", "EntryWatchlist", "OversoldTracker", "MasterStockList",
          "BacktestQueue", "BacktestResults", "PortfolioEquity">>

Range(f) == { f[i] : i \in DOMAIN f }

Event(kind, what) == [kind |-> kind, what |-> what, payload |-> <<>>]

\* a request to the GitHub or OpenAI API
Request(what, payload) == [kind |-> "API", what |-> what, payload |-> payload]

\* the decoded body of a resource that answers "ok"
BodyOf(k) ==
    IF k = "manifest" THEN JObj([snapshot_iso |-> JStr("2025-09-13T03:21:30Z")])
    ELSE JObj([rows |-> JList(<<RowA>>)])

\* fetch_json of owneronly and owner_pat: the decoded body, None after a warning
fetch_json(k, answer) ==
    CASE answer = "ok" -> [val |-> BodyOf(k), events |-> <<Event("GET", k)>>]
      [] answer = "odd" -> [val |-> JInt(5), events |-> <<Event("GET", k)>>]
      [] OTHER -> [val |-> JNull,
                   events |-> <<Event("GET", k), Event("stderr", "[warn] GET " \o k)>>]

\* the events of fetching the resources ks one after the other
RECURSIVE FetchEvents(_, _)
FetchEvents(ks, answers) ==
    IF ks = <<>> THEN <<>>
    ELSE fetch_json(Head(ks), answers[Head(ks)]).events \o FetchEvents(Tail(ks), answers)

\* main of owneronly (lines 366-368) and of owner_pat (lines 217-220): the loop
\* over URLS; owner_pat then fetches the manifest once more
MainFetch ==
    /\ script \in DigestScripts
    /\ pc = "main"
    /\ pc' = "fetched"
    /\ data' = [k \in Range(URLS) |-> fetch_json(k, net.answers[k]).val]
    /\ log' = log \o FetchEvents(URLS \o (IF script = "owner_pat" THEN <<"manifest">> ELSE <<>>),
                                 net.answers)
    /\ UNCHANGED <<script, NOW_UTC, STALE_MINUTES, obj, rows, manifest_obj, candidates, env,
                   net, fn, ret>>

\* main: digest = build_digest(data); print(banner); print(digest).  An exception
\* of build_digest is caught nowhere: the interpreter prints the traceback
MainBuild ==
    /\ pc = "fetched"
    /\ ret' = build_digest(script, data)
    /\ IF ret'.raised
       THEN /\ pc' = "aborted"
            /\ log' = log \o <<Event("stderr", "Traceback")>>
       ELSE /\ pc' = "printed"
            /\ log' = log \o <<Event("stdout", "===== DIGEST (plain text) ====="),
                               Event("stdout", "digest")>>
    /\ UNCHANGED <<script, NOW_UTC, STALE_MINUTES, obj, rows, manifest_obj, data, candidates,
                   env, net, fn>>

(***************************************************************************)
(* main of post_digest: the resources are the monthly alias of a tab       *)
(* "latest/<tab>", its timestamped copy "ts/<tab>", the two manifests      *)
(* "manifest/month" and "manifest/latest", and "latest/manifest".  The     *)
(* cache-busting query ?v=<time> names the same resource.                  *)
(***************************************************************************)
TABS == <<"EntryWatchlist", "OversoldTracker", "ExitMonitor", "RiskMonitor",
          "SectorExposure", "EarningsMonitor">>

Resources(sc) ==
    IF sc \in DigestScripts THEN Range(URLS)
    ELSE { "latest/" \o t : t \in Range(TABS) } \cup { "ts/" \o t : t \in Range(TABS) }
         \cup {"manifest/month", "manifest/latest", "latest/manifest"}

\* r.ok of requests: a response arrived and its status is below 400
r_ok(answer) == answer \in {"ok", "odd", "garbled"}

Outcome(r, v, e) == [raised |-> r, val |-> v, events |-> e]

\* the fallback of url_for_tab through one manifest: mr.json() raises on a body
\* that is no JSON, _pick_timestamp_path on the number 5; an "ok" manifest names
\* a snapshots/ path
ManifestPath(answer) ==
    CASE answer = "ok" -> Return("ts/")
      [] answer \in {"odd", "garbled"} -> Raise
      [] OTHER -> Return("")

url_for_tab(tab, answers) ==
    LET monthly == "latest/" \o tab
        e1 == <<Event("GET", monthly)>>
        e2 == e1 \o <<Event("GET", "manifest/month")>>
        e3 == e2 \o <<Event("GET", "manifest/latest")>>
        mr == ManifestPath(answers["manifest/month"])
        gr == ManifestPath(answers["manifest/latest"])
    IN  IF answers[monthly] = "error" THEN Outcome(TRUE, "", e1)
        ELSE IF r_ok(answers[monthly]) THEN Outcome(FALSE, monthly, e1)
        ELSE IF answers["manifest/month"] = "error" \/ mr.raised THEN Outcome(TRUE, "", e2)
        ELSE IF mr.val # "" THEN Outcome(FALSE, mr.val \o tab, e2)
        ELSE IF answers["manifest/latest"] = "error" \/ gr.raised THEN Outcome(TRUE, "", e3)
        ELSE IF gr.val # "" THEN Outcome(FALSE, gr.val \o tab, e3)
        ELSE Outcome(FALSE, monthly, e3)

\* fetch_json of post_digest: requests.get, raise_for_status, r.json()
fetch_json_requests(url, answer) ==
    CASE answer = "ok" -> Outcome(FALSE, BodyOf(url), <<Event("GET", url)>>)
      [] answer = "odd" -> Outcome(FALSE, JInt(5), <<Event("GET", url)>>)
      [] OTHER -> Outcome(TRUE, <<>>, <<Event("GET", url)>>)

\* to_rows(fetch_json(url_for_tab(tab)))
fetch_tab(tab, answers) ==
    LET u == url_for_tab(tab, answers) IN
    IF u.raised THEN u
    ELSE LET f == fetch_json_requests(u.val, answers[u.val]) IN
         IF f.raised THEN Outcome(TRUE, <<>>, u.events \o f.events)
         ELSE Outcome(to_rows(f.val).raised, to_rows(f.val).val, u.events \o f.events)

\* the six fetches of main, in order, up to the first that raises
RECURSIVE fetch_tabs(_, _)
fetch_tabs(tabs, answers) ==
    IF tabs = <<>> THEN Outcome(FALSE, <<>>, <<>>)
    ELSE LET t == fetch_tab(Head(tabs), answers) IN
         IF t.raised THEN t
         ELSE LET rest == fetch_tabs(Tail(tabs), answers) IN
              Outcome(rest.raised, <<t.val>> \o rest.val, t.events \o rest.events)

\* url_for_monthly_manifest, then fetch_json(murl) inside try / except: pass
snapshot_info(answers) ==
    LET probe == <<Event("GET", "latest/manifest")>> IN
    IF answers["latest/manifest"] = "error" THEN Outcome(TRUE, <<>>, probe)
    ELSE IF r_ok(answers["latest/manifest"])
         THEN Outcome(FALSE, <<>>, probe \o <<Event("GET", "latest/manifest")>>)
    ELSE Outcome(FALSE, <<>>, probe)

\* main of post_digest and the try / except around it (lines 194-259): the
\* section text is left out, the run either prints its digest or exits with 1
MainPostDigest ==
    /\ script = "post_digest"
    /\ pc = "main"
    /\ LET t == fetch_tabs(TABS, net.answers)
           m == snapshot_info(net.answers)
       IN  IF t.raised
           THEN /\ pc' = "exited"
                /\ log' = log \o t.events \o <<Event("stderr", "ERROR")>>
                /\ data' = data
           ELSE IF m.raised
           THEN /\ pc' = "exited"
                /\ log' = log \o t.events \o m.events \o <<Event("stderr", "ERROR")>>
                /\ data' = data
           ELSE /\ pc' = "returned"
                /\ log' = log \o t.events \o m.events \o <<Event("stdout", "digest")>>
                /\ data' = [k \in Range(TABS) |->
                               JList(t.val[CHOOSE i \in 1..Len(TABS) : TABS[i] = k])]
    /\ UNCHANGED <<script, NOW_UTC, STALE_MINUTES, obj, rows, manifest_obj, candidates, env,
                   net, fn, ret>>

(***************************************************************************)
(* main: publishing the digest.  env maps the environment variables that   *)
(* are set to their values; net.issues lists the repository's open issues  *)
(* and pull requests as the API lists them.  An API request is answered    *)
(* "ok", with a status that is not 2xx ("status": HTTPError) or not at all *)
(* ("error": URLError, timeout).                                           *)
(***************************************************************************)
ApiAnswers == {"ok", "status", "error"}

\* os.getenv(name, default); None is written "" (the code only tests it for truth)
getenv(e, name, default) == IF name \in DOMAIN e THEN e[name] ELSE default

\* int(s) of a str: ok = FALSE is ValueError
PyInt(s0) ==
    LET s == Strip(s0)
        signed == Len(s) > 0 /\ Char(s, 1) \in {"+", "-"}
        body == IF signed THEN SubSeq(s, 2, Len(s)) ELSE s
    IN  IF body = "" \/ ~AllDigits(body) THEN [ok |-> FALSE, n |-> 0]
        ELSE [ok |-> TRUE,
              n |-> IF signed /\ Char(s, 1) = "-" THEN 0 - DigitsVal(body) ELSE DigitsVal(body)]

\* s.split(sep) for a one-character sep
Split(s, sep) ==
    LET at == { i \in 1..Len(s) : Char(s, i) = sep }
        n == Cardinality(at)
        pos(k) == CHOOSE i \in at : Cardinality({ j \in at : j < i }) = k - 1
        from(k) == IF k = 1 THEN 1 ELSE pos(k - 1) + 1
        to(k) == IF k = n + 1 THEN Len(s) ELSE pos(k) - 1
    IN  [k \in 1..(n + 1) |-> SubSeq(s, from(k), to(k))]

\* [s.strip() for s in (labels_csv or "").split(",") if s.strip()]
RECURSIVE StripAll(_)
StripAll(parts) ==
    IF parts = <<>> THEN <<>>
    ELSE (IF Strip(Head(parts)) = "" THEN <<>> ELSE <<Strip(Head(parts))>>)
         \o StripAll(Tail(parts))

labels_of(labels_csv) == StripAll(Split(labels_csv, ","))

\* the credential: GH_PAT or GITHUB_TOKEN in owneronly, GH_PAT alone in owner_pat
token(sc, e) ==
    IF sc = "owneronly" /\ getenv(e, "GH_PAT", "") = "" THEN getenv(e, "GITHUB_TOKEN", "")
    ELSE getenv(e, "GH_PAT", "")

\* gh_request of owneronly, gh_repo of owner_pat: one request to /repos/{REPO}{path}
gh_request(sc, e, what, payload, answer) ==
    IF token(sc, e) = "" THEN Outcome(TRUE, "RuntimeError", <<>>)
    ELSE IF getenv(e, "GITHUB_REPOSITORY", "") = "" THEN Outcome(TRUE, "RuntimeError", <<>>)
    ELSE CASE answer = "ok" -> Outcome(FALSE, "", <<Request(what, payload)>>)
           [] answer = "status" ->
                Outcome(TRUE, "HTTPError",
                        <<Request(what, payload), Event("stderr", "[error] GitHub API " \o what)>>)
           [] OTHER -> Outcome(TRUE, "URLError", <<Request(what, payload)>>)

PER_PAGE == 100

\* what the lookup is answered when it succeeds: the search of owneronly finds
\* the open issues (no pull requests) whose title holds the words asked for,
\* the listing of owner_pat is the first page of open issues and pull requests
lookup_path(sc) ==
    IF sc = "owneronly" THEN "GET /search/issues" ELSE "GET /issues?state=open&per_page=100"

lookup_answer(sc, issues, title) ==
    LET Found(it) == ~it.pr /\ Contains(it.title, title) IN
    IF sc = "owneronly" THEN SelectSeq(issues, Found)
    ELSE SubSeq(issues, 1, Min(PER_PAGE, Len(issues)))

Issue(number, title, pr) == [number |-> number, title |-> title, pr |-> pr]

\* the number the repository gives the next issue
fresh_number(issues) ==
    1 + Cardinality({ n \in 1..50 : \E i \in 1..Len(issues) : issues[i].number >= n })

None == [none |-> TRUE, n |-> 0]
Some(n) == [none |-> FALSE, n |-> n]

\* an ensure_issue that looks nothing up and always opens a ticket
ensure_issue_always_new(sc, e, issue_number, title0, labels_csv, issues, a1, a2) ==
    LET title == IF title0 = "" THEN "Watchlist Digest ~ " \o MONTH ELSE title0
        created == gh_request(sc, e, "POST /issues",
                              [title |-> title, labels |-> labels_of(labels_csv)], a2)
    IN  Outcome(created.raised, IF created.raised THEN created.val ELSE fresh_number(issues),
                created.events)

\* ensure_issue(issue_number, title, labels_csv); issue_number is None or an int
ensure_issue(sc, e, issue_number, title0, labels_csv, issues, a1, a2) ==
    LET title == IF title0 = "" THEN "Watchlist Digest ~ " \o MONTH ELSE title0
        search == gh_request(sc, e, lookup_path(sc), <<>>, a1)
        Same(it) == ~it.pr /\ it.title = title
        items == SelectSeq(lookup_answer(sc, issues, title), Same)
        fresh == fresh_number(issues)
        created == gh_request(sc, e, "POST /issues",
                              [title |-> title, labels |-> labels_of(labels_csv)], a2)
    IN  IF ~issue_number.none /\ issue_number.n # 0 THEN Outcome(FALSE, issue_number.n, <<>>)
        ELSE IF search.raised THEN search
        ELSE IF items # <<>> THEN Outcome(FALSE, items[1].number, search.events)
        ELSE Outcome(created.raised, IF created.raised THEN created.val ELSE fresh,
                     search.events \o created.events)

\* post_comment(issue_number, body)
post_comment(sc, e, issue_number, body, a3) ==
    gh_request(sc, e, "POST /issues/" \o IntToStr(issue_number) \o "/comments",
               [body |-> body], a3)

\* the statements of main between try and except
publish(sc, e, issues, digest, a1, a2, a3) ==
    LET issue_no_env == getenv(e, "ISSUE_NUMBER", "")
        issue_title == getenv(e, "ISSUE_TITLE", "")
        labels == getenv(e, "ISSUE_LABELS", "digest,automation")
        number == IF issue_no_env = "" THEN None ELSE Some(PyInt(issue_no_env).n)
        issue_no == ensure_issue(sc, e, number, issue_title, labels, issues, a1, a2)
        comment == post_comment(sc, e, issue_no.val, digest, a3)
    IN  IF issue_no_env # "" /\ ~PyInt(issue_no_env).ok THEN Outcome(TRUE, "ValueError", <<>>)
        ELSE IF issue_no.raised THEN issue_no
        ELSE IF comment.raised
             THEN Outcome(TRUE, comment.val, issue_no.events \o comment.events)
        ELSE Outcome(FALSE, issue_no.val,
                     issue_no.events \o comment.events
                     \o <<Event("stdout", "[info] Posted digest comment to Issue #"
                                          \o IntToStr(issue_no.val) \o ".")>>)

\* an except clause that lets everything but HTTPError through
catches_http_only(sc, exc) == exc = "HTTPError"

\* the except clauses of main: HTTPError and Exception in owneronly, Exception
\* in owner_pat
catches(sc, exc) ==
    IF sc = "owneronly" THEN exc = "HTTPError" \/ exc \in {"RuntimeError", "ValueError", "URLError"}
    ELSE exc \in {"HTTPError", "RuntimeError", "ValueError", "URLError"}

\* main of owneronly (lines 376-387) and of owner_pat (lines 226-235)
MainPublish ==
    /\ script \in DigestScripts
    /\ pc = "printed"
    /\ \E a1, a2, a3 \in ApiAnswers :
         LET p == publish(script, env, net.issues, ret.val, a1, a2, a3)
             made == a2 = "ok" /\ \E i \in 1..Len(p.events) : p.events[i].what = "POST /issues"
             title == IF getenv(env, "ISSUE_TITLE", "") = ""
                      THEN "Watchlist Digest ~ " \o MONTH ELSE getenv(env, "ISSUE_TITLE", "")
         IN  /\ IF ~p.raised
                THEN /\ log' = log \o p.events
                     /\ pc' = IF script = "owneronly" THEN "published" ELSE "returned"
                ELSE IF catches(script, p.val)
                THEN /\ log' = log \o p.events \o <<Event("stderr", "[warn] Issue posting failed")>>
                     /\ pc' = IF script = "owneronly" THEN "published" ELSE "returned"
                ELSE /\ log' = log \o p.events \o <<Event("stderr", "Traceback")>>
                     /\ pc' = "aborted"
             /\ net' = IF made
                       THEN [net EXCEPT !.created = fresh_number(net.issues),
                                        !.issues = Append(@, Issue(fresh_number(@), title, FALSE))]
                       ELSE net
    /\ UNCHANGED <<script, NOW_UTC, STALE_MINUTES, obj, rows, manifest_obj, data, candidates,
                   env, fn, ret>>

\* post_to_openai_thread(digest), the last statement of main of owneronly
MainForward ==
    /\ script = "owneronly"
    /\ pc = "published"
    /\ pc' = "returned"
    /\ IF getenv(env, "OPENAI_API_KEY", "") = "" \/ getenv(env, "THREAD_ID", "") = ""
       THEN log' = log \o <<Event("stdout", "[info] OPENAI vars missing; skipping OpenAI post.")>>
       ELSE \E a \in ApiAnswers :
              log' = log \o <<Request("POST /v1/threads/messages",
                                     [role |-> "user", content |-> ret.val])>>
                         \o (IF a = "ok"
                             THEN <<Event("stdout", "[info] Posted digest to OpenAI thread.")>>
                             ELSE <<Event("stderr", "[warn] OpenAI post failed")>>)
    /\ UNCHANGED <<script, NOW_UTC, STALE_MINUTES, obj, rows, manifest_obj, data, candidates,
                   env, net, fn, ret>>

(***************************************************************************)
(* SpecMain: one run of main in each script, over the answers of the       *)
(* remote side, the environment and the repository's open issues           *)
(***************************************************************************)
AllAnswer(R, kind) == [k \in R |-> kind]
OneAnswers(R, k, kind) == [x \in R |-> IF x = k THEN kind ELSE "ok"]
OnlyUp(R, k, kind) == [x \in R |-> IF x = k THEN "ok" ELSE kind]

\* every resource up, every resource down, one resource down, one resource up
Answers(R) ==
    { AllAnswer(R, kind) : kind \in AnswerKinds }
    \cup { OneAnswers(R, k, kind) : k \in R, kind \in AnswerKinds \ {"ok"} }
    \cup { OnlyUp(R, k, kind) : k \in R, kind \in AnswerKinds \ {"ok"} }

Unset == "(unset)"
Setting(name, v) == IF v = Unset THEN NoKeys ELSE (name :> v)

EnvOf(number, title, labels, pat, tok, repo, key, thread) ==
    Setting("ISSUE_NUMBER", number) @@ Setting("ISSUE_TITLE", title)
    @@ Setting("ISSUE_LABELS", labels) @@ Setting("GH_PAT", pat)
    @@ Setting("GITHUB_TOKEN", tok) @@ Setting("GITHUB_REPOSITORY", repo)
    @@ Setting("OPENAI_API_KEY", key) @@ Setting("THREAD_ID", thread)

\* every way of naming the ticket with the credentials in place, and every
\* way of leaving credentials out
Envs ==
    { EnvOf(n, t, l, "pat", Unset, "o/r", k, k) :
        n \in {Unset, "", "7", " 12", "0", "x"}, t \in {Unset, "Daily"},
        l \in {Unset, "", " a, ,b"}, k \in {Unset, "k"} }
    \cup { EnvOf(n, Unset, Unset, pat, tok, repo, key, thread) :
        n \in {Unset, "7"}, pat \in {Unset, "pat"}, tok \in {Unset, "tok"},
        repo \in {Unset, "o/r"}, key \in {Unset, "k"}, thread \in {Unset, "th"} }

\* the open issues and pull requests of the repository
IssueLists ==
    { <<>>,
      <<Issue(3, "Daily recap", FALSE), Issue(4, "Watchlist Digest ~ 2025-09", FALSE)>>,
      <<Issue(5, "Daily", TRUE), Issue(6, "Daily", FALSE), Issue(8, "Daily", FALSE)>>,
      <<Issue(9, "Watchlist Digest ~ 2025-09", TRUE), Issue(2, "daily", FALSE)>> }

FullEnv == EnvOf(Unset, Unset, Unset, "pat", Unset, "o/r", "k", "k")

\* runs that differ in the answers of the resources, and runs of the two digest
\* scripts that differ in the environment and the open issues
Runs ==
    { [script |-> sc, answers |-> a, env |-> FullEnv, issues |-> <<>>] :
        sc \in {"post_digest"}, a \in Answers(Resources("post_digest")) }
    \cup { [script |-> sc, answers |-> a, env |-> FullEnv, issues |-> <<>>] :
        sc \in DigestScripts, a \in Answers(Range(URLS)) }
    \cup { [script |-> sc, answers |-> AllAnswer(Range(URLS), kind), env |-> e, issues |-> is] :
        sc \in DigestScripts, kind \in {"ok", "status"}, e \in Envs, is \in IssueLists }

InitMain ==
    \E run \in Runs :
        /\ script = run.script
        /\ NOW_UTC = DefaultNow
        /\ STALE_MINUTES = 120
        /\ obj = JNull
        /\ rows = <<>>
        /\ manifest_obj = JNull
        /\ data = NoKeys
        /\ candidates = <<>>
        /\ env = run.env
        /\ net = [answers |-> run.answers, issues |-> run.issues, created |-> 0]
        /\ log = <<>>
        /\ pc = "main"
        /\ fn = "main"
        /\ ret = Return(<<>>)

NextMain == MainFetch \/ MainBuild \/ MainPublish \/ MainForward \/ MainPostDigest

SpecMain == InitMain /\ [][NextMain]_vars

TypeMain == pc \in {"main", "fetched", "printed", "published", "returned", "aborted", "exited"}

(***************************************************************************)
(* Claims about main                                                       *)
(***************************************************************************)
Gets(k) == { i \in 1..Len(log) : log[i].kind = "GET" /\ log[i].what = k }
Prints == { i \in 1..Len(log) : log[i] = Event("stdout", "digest") }
ApiRequests == { i \in 1..Len(log) : log[i].kind = "API" }
Warned == \E i \in 1..Len(log) : log[i] = Event("stderr", "[warn] Issue posting failed")
Posted == \E i \in 1..Len(log) :
             /\ log[i].kind = "stdout"
             /\ StartsWith(log[i].what, "[info] Posted digest comment to Issue #")

\* the fetch of resource k fails: a status that is not 2xx, a network error or
\* timeout, a body that does not decode
FetchFails(k) == net.answers[k] \in {"status", "error", "garbled"}
EveryBodyIsATable == \A k \in DOMAIN net.answers : net.answers[k] # "odd"

\* the data of a run in which every failed table has no rows and a failed
\* manifest is missing
WithoutFailed ==
    [k \in Range(URLS) |->
        IF ~FetchFails(k) THEN BodyOf(k)
        ELSE IF k = "manifest" THEN JNull ELSE JObj([rows |-> JList(<<>>)])]

\* C12: in all three scripts, whichever table or manifest fetches fail (a
\* status that is not 2xx, a network error, a timeout, an undecodable body),
\* the run does not abort: every resource is still requested, a failed table
\* counts as a table without rows, and the digest is built and printed.
C12_FetchFailuresTolerated ==
    (fn = "main" /\ EveryBodyIsATable) =>
        /\ pc \notin {"aborted", "exited"}
        /\ (script \in DigestScripts /\ pc # "main") =>
               \A k \in Range(URLS) : Gets(k) # {}
        /\ (script \in DigestScripts /\ pc \in {"printed", "published", "returned"}) =>
               /\ Prints # {}
               /\ ret = build_digest(script, WithoutFailed)
        /\ (script = "post_digest" /\ pc = "returned") =>
               /\ Prints # {}
               /\ \A t \in Range(TABS) : Gets("latest/" \o t) \cup Gets("ts/" \o t) # {}

\* C14: in one run every remote resource (each table URL, the manifest URL)
\* receives at most one GET.
C14_EachResourceFetchedOnce ==
    fn = "main" => \A k \in DOMAIN net.answers : Cardinality(Gets(k)) <= 1

\* C13: in a run of main of owneronly and owner_pat the digest is printed
\* before the first publish request is sent; a failure of the publish or
\* forward step (no credential, no repository name, a ticket number that is no
\* integer, an HTTP error, a network error) is caught and logged, main goes on
\* and returns; without a credential no request is sent, and the digest is
\* computed and printed all the same.
MissingCredential == token(script, env) = ""
MissingRepository == "GITHUB_REPOSITORY" \notin DOMAIN env
BadTicketNumber == "ISSUE_NUMBER" \in DOMAIN env /\ env["ISSUE_NUMBER"] = "x"

C13_PublishFailuresContained ==
    (fn = "main" /\ script \in DigestScripts) =>
        /\ \A i \in ApiRequests : \E j \in Prints : j < i
        /\ pc = "aborted" => (Prints = {} /\ ApiRequests = {})
        /\ pc \in {"published", "returned"} =>
              /\ Prints # {}
              /\ ~ret.raised
              /\ Posted # Warned
              /\ (MissingCredential \/ MissingRepository \/ BadTicketNumber) =>
                    /\ Warned
                    /\ \A i \in ApiRequests : log[i].what = "POST /v1/threads/messages"
              /\ \A i \in ApiRequests :
                    (i < Len(log) /\ StartsWith(log[i + 1].what, "[error] GitHub API")) => Warned
        /\ (script = "owneronly" /\ pc = "returned") =>
              \/ log[Len(log)] = Event("stdout", "[info] OPENAI vars missing; skipping OpenAI post.")
              \/ log[Len(log)] = Event("stdout", "[info] Posted digest to OpenAI thread.")
              \/ log[Len(log)] = Event("stderr", "[warn] OpenAI post failed")

\* C13 witness: owner_pat has returned although GH_PAT is not set; the digest
\* was printed and the failure logged
C13_Witness ==
    /\ fn = "main" /\ script = "owner_pat" /\ pc = "returned"
    /\ "GH_PAT" \notin DOMAIN env
    /\ Prints # {}
    /\ Warned

\* C15: the ticket the digest is published to.  With a ticket number (a
\* positive integer) supplied no lookup and no create request is sent and the
\* comment goes to that number; with none supplied an open ticket whose title
\* equals the configured title is reused whenever there is one, and a ticket is
\* created, with the configured labels, only when there is none.  A run
\* creates at most one ticket and posts at most one comment.
TicketNumbers == ("7" :> "7") @@ (" 12" :> "12")
LabelLists ==
    (Unset :> <<"digest", "automation">>) @@ ("" :> <<>>) @@ (" a, ,b" :> <<"a", "b">>)
ConfiguredTitle ==
    IF getenv(env, "ISSUE_TITLE", "") = "" THEN "Watchlist Digest ~ 2025-09"
    ELSE env["ISSUE_TITLE"]
OpenAtStart ==
    IF net.created = 0 THEN net.issues ELSE SubSeq(net.issues, 1, Len(net.issues) - 1)
OpenTickets ==
    { i \in 1..Len(OpenAtStart) : ~OpenAtStart[i].pr /\ OpenAtStart[i].title = ConfiguredTitle }
Lookups == { i \in ApiRequests : log[i].what = lookup_path(script) }
Creates == { i \in ApiRequests : log[i].what = "POST /issues" }
Comments == { i \in ApiRequests : StartsWith(log[i].what, "POST /issues/") }
CommentTo(number) == "POST /issues/" \o number \o "/comments"

MaxTopRows == 10

\* the BounceScore of row i of n: rising, falling, all equal, every other row
\* unscored, the scores only in the rows after the eighth, one score below
\* the sentinel in the last row
ScorePatterns == {"rising", "falling", "flat", "mixed", "late", "low"}

ScoreAt(pattern, i, n) ==
    CASE pattern = "rising" -> JInt(i)
      [] pattern = "falling" -> JInt(n - i)
      [] pattern = "flat" -> JFloat(5, 0)
      [] pattern = "mixed" -> IF i % 2 = 0 THEN JInt(i) ELSE Absent
      [] pattern = "late" -> IF i > 8 THEN JInt(i) ELSE JStr("n/a")
      [] OTHER -> IF i = n THEN JInt(-2000000000) ELSE Absent

\* the rows that carry no ticker
Tickerless == { {}, {2}, {1, 9} }

TopTable(pattern, n, bare) ==
    [i \in 1..n |->
        IF i \in bare THEN JObj(Col("BounceScore", ScoreAt(pattern, i, n)))
        ELSE WithTicker(JObj(Col("BounceScore", ScoreAt(pattern, i, n))), i)]

InitTop ==
    \E sc \in DigestScripts, pattern \in ScorePatterns, n \in 0..MaxTopRows, bare \in Tickerless :
        Ready(sc, DefaultNow, 120, JNull, TopTable(pattern, n, bare), JNull, NoKeys)

NextTop == CallBuy

SpecTop == InitTop /\ [][NextTop]_vars

\* the lines of the section that name a candidate
CandidateLines ==
    { k \in 1..Len(Lines(ret.val)) : Lines(ret.val)[k] \notin {"", "   ~"} }

\* row i has a strictly higher score than row j (both have a score that parses)
ScoresHigher(i, j) ==
    /\ ParsedScore(rows[i]).ok /\ ParsedScore(rows[j]).ok
    /\ FloatLess(ParsedScore(rows[j]), ParsedScore(rows[i]))

MaxOrderRows == 3

Dated(t, date, item) ==
    [row |-> JObj(("Ticker" :> JStr(t)) @@ Col("EarningsDate", date)), item |-> item]

OrderRows ==
    { Dated("AAA", JStr("2025-12-27"), "AAA (2d)"),
      Dated("AAA", JStr("2026-01-04"), "AAA (10d)"),
      Dated("AAA", JStr("2026-01-08T23:59:59"), "AAA (14d)"),
      Dated("BBB", JStr("2025-12-25"), "BBB (0d)"),
      Dated("BBB", JStr("2026-01-04T09:30:00Z"), "BBB (10d)"),
      Dated("AAA", JStr("2026-01-09T00:00:00Z"), ""),
      Dated("BBB", JStr("soon"), ""),
      Dated("AAA", Absent, "") }

InitOrder ==
    \E sc \in DigestScripts, rs \in SeqsUpTo({ r.row : r \in OrderRows }, MaxOrderRows) :
        Ready(sc, At(2025, 12, 25, 10, 30, 45), 120, JNull, rs, JNull, NoKeys)

NextOrder == CallEarn

SpecOrder == InitOrder /\ [][NextOrder]_vars

\* the item a row must give
ItemOf(r) == (CHOOSE x \in OrderRows : x.row = r).item

\* the items of the output
OutputItems == IF ret.val = "~" THEN <<>> ELSE StripAll(Split(ret.val, ","))

Occurrences(items, x) == Cardinality({ i \in 1..Len(items) : items[i] = x })
Position(items, x) == CHOOSE i \in 1..Len(items) : items[i] = x

\* C17: the Upcoming Earnings output is the comma-joined list of the
\* "TICKER (Nd)" items, one for each qualifying row (duplicates kept), in the
\* lexicographic order of the whole item, not of the day count: "AAA (10d)"
\* comes before "AAA (2d)" and "AAA (14d)" before "BBB (0d)".  Rows whose date
\* is missing or unparseable are skipped without raising, and with no item the
\* output is exactly "~" (the dash).
C17_EarningsOrder ==
    (Done /\ fn = "earn" /\ \A i \in 1..Len(rows) : \E x \in OrderRows : x.row = rows[i]) =>
        LET expected == { ItemOf(rows[i]) : i \in 1..Len(rows) } \ {""}
            out == OutputItems
        IN  /\ ~ret.raised
            /\ expected = {} <=> ret.val = "~"
            /\ ret.val # "~" => ret.val = Join(out, ", ")
            /\ \A x \in expected \cup Range(out) :
                  Occurrences(out, x)
                    = Cardinality({ i \in 1..Len(rows) : ItemOf(rows[i]) = x })
            /\ \A k \in 1..(Len(out) - 1) : ~StrLess(out[k + 1], out[k])
            /\ ({"AAA (10d)", "AAA (2d)"} \subseteq expected) =>
                  Position(out, "AAA (10d)") < Position(out, "AAA (2d)")
            /\ ({"AAA (14d)", "BBB (0d)"} \subseteq expected) =>
                  Position(out, "AAA (14d)") < Position(out, "BBB (0d)")

\* C17 witness: the rows AAA in 2 days, AAA in 10 days, AAA in 2 days again
C17_Witness ==
    /\ Done /\ fn = "earn" /\ Len(rows) = 3
    /\ Get(rows[1], "EarningsDate") = JStr("2025-12-27")
    /\ Get(rows[2], "EarningsDate") = JStr("2026-01-04")
    /\ rows[3] = rows[1]
    /\ ret.val = "AAA (10d), AAA (2d), AAA (2d)"

(***************************************************************************)
(* SpecReports: the staleness evaluator on manifests whose "snapshot_iso"  *)
(* is blank, next to the manifests of SpecStale                            *)
(***************************************************************************)
BlankManifests ==
    { JObj([snapshot_iso |-> JStr(b), timestamp |-> JStr(a.iso)]) :
        b \in {"", " ", " \t"}, a \in StaleCalendar }
    \cup { JObj([snapshot_iso |-> JStr(b)]) : b \in {"", " ", " \t"} }
    \cup { JObj([snapshot_iso |-> JNull, timestamp |-> JStr(a.iso)]) : a \in StaleCalendar }
    \cup { JObj([snapshot_iso |-> JStr("yesterday"), timestamp |-> JStr(a.iso)]) :
             a \in StaleCalendar }

InitReports ==
    \E sc \in DigestScripts, limit \in Thresholds, m \in Manifests \cup BlankManifests :
        Ready(sc, DefaultNow, limit, JNull, <<>>, m, NoKeys)

NextReports == CallStaleness

SpecReports == InitReports /\ [][NextReports]_vars

\* the candidates of a manifest that are present with a non-blank value
Timestamps(m) ==
    SelectSeq(<<"snapshot_iso", "timestamp">>,
              LAMBDA k : k \in DOMAIN m.obj /\ m.obj[k].t # "null"
                         /\ Strip(ToStr(m.obj[k])) # "")

\* the four reports
MissingReport == "Manifest missing at " \o MANIFEST_URL
NoTimestampReport == "Manifest timestamp missing"
UnreadableReport(raw) == "Manifest timestamp unreadable: " \o raw
IsElapsedReport(text, raw, seconds) ==
    \/ text = "Snapshot " \o raw \o " ~ " \o IntToStr(seconds \div 60) \o " minutes ago"
    \/ text = "Snapshot " \o raw \o " ~ " \o IntToStr(seconds \div 60) \o " minutes ago (STALE!)"

\* C18: the staleness evaluator never raises; its report is "Manifest missing
\* at <url>" for an absent manifest, "Manifest timestamp missing" when neither
\* "snapshot_iso" nor "timestamp" holds a non-blank value, "Manifest timestamp
\* unreadable: <raw>" when the value used is no ISO-8601 timestamp, and the
\* elapsed-minutes line otherwise.  The value used is the first of
\* "snapshot_iso", "timestamp" that is present and not blank: a blank or
\* whitespace-only "snapshot_iso" falls through to "timestamp".
C18_StalenessReports ==
    (Done /\ fn = "staleness") =>
        /\ ~ret.raised
        /\ manifest_obj = JNull => ret.val = MissingReport
        /\ (manifest_obj.t = "obj" /\ manifest_obj.obj # NoKeys) =>
              LET found == Timestamps(manifest_obj)
                  raw == ToStr(manifest_obj.obj[found[1]])
                  known == { a \in StaleCalendar : a.iso = raw }
              IN  IF found = <<>> THEN ret.val = NoTimestampReport
                  ELSE IF known = {} THEN ret.val = UnreadableReport(raw)
                  ELSE \A a \in known : IsElapsedReport(ret.val, raw, a.seconds)

====
